---- MODULE Spec2Model ----
(***************************************************************************)
(* Name / account-number extraction heuristics for bank-statement text.    *)
(*                                                                         *)
(* Text is modelled character by character: a string is a tuple of         *)
(* one-character strings, a list of lines is a tuple of strings.  Regular  *)
(* expressions of the source are written as syntax trees (records) and     *)
(* run by a backtracking matcher with Python's                             *)
(* priority order, so that greedy and lazy quantifiers, re.search,         *)
(* re.match and re.sub behave as they do in the scripts.                   *)
(***************************************************************************)
EXTENDS Integers, Sequences, FiniteSets, TLC

VARIABLES
    pc,            \* position of the running function
    lines,         \* the list of lines the running function works on
    pos,           \* index (from 1) of the item a loop is at
    header_lines,  \* analyze_pdf, stage 0: the header collected so far
    disk,          \* generate_extraction_report: what reading each file gives
    pdf_files,
    extraction_results,
    total_files,
    successful_extractions,
    partial_extractions,
    failed_extractions,
    summary,       \* the counters printed by the summary report, or None
    name_line,     \* filter_header_data: what find_name_line returned
    customer_name, \* filter_header_data: the name taken from name_line
    account_number, \* extract_account_number: the pair it returns
    extracted_name, \* PDFNameExtractor.analyze_pdf: the name found so far
    start_idx,     \* PDFHeaderAnalyzer.find_address_block (indices from 0)
    end_idx,
    in_address_block,
    consecutive_address_lines,
    skip_mode,     \* header_detector.remove_address_block
    address_line_count,
    kept_lines,    \* the lines an address remover keeps (cleaned_lines)
    table_lines,   \* header_detector.detect_header_section
    table_started,
    analysis,      \* PDFHeaderAnalyzer.analyze_pdf: its dictionary result
    stage1_lines,  \* analyze_pdf: raw_lines, the lines after stage 1
    oneshot_name,  \* analyze_pdf: the name one-shot detection found last
    oneshot_type,  \* analyze_pdf: type_, the entity type found with it
    number_cleaned_lines, \* analyze_pdf: the lines after stage 3
    final_cleaned_lines,  \* analyze_pdf: the lines after stage 4
    results,       \* analyze_pdf_directory: the results to be exported
    candidates,    \* header_detector.analyze_header_for_name
    best_name,     \* analyze_header_for_name: the name it returns
    stdin          \* the Enter keys typed that input() has not read yet

stage0Vars == <<header_lines, table_lines, table_started>>

reportVars ==
    <<disk, pdf_files, extraction_results, total_files,
      successful_extractions, partial_extractions, failed_extractions, summary>>

nameVars == <<name_line, customer_name, account_number>>

extractorVars == <<extracted_name>>

addressVars ==
    <<start_idx, end_idx, in_address_block, consecutive_address_lines,
      skip_mode, address_line_count, kept_lines>>

analyzeVars ==
    <<analysis, stage1_lines, oneshot_name, oneshot_type,
                   number_cleaned_lines,
      final_cleaned_lines, results>>

detectorVars == <<candidates, best_name, stdin>>

vars ==
    <<pc, lines, pos, stage0Vars, reportVars, nameVars, extractorVars, addressVars,
      analyzeVars, detectorVars>>

(***************************************************************************)
(* Characters and Python string methods                                    *)
(***************************************************************************)
UpperSeq == <<"A","B","C","D","E","F","G","H","I","J","K","L","M","N","O","P","Q","R","S","T","U","V","W","X","Y","Z">>

LowerSeq == <<"a","b","c","d","e","f","g","h","i","j","k","l","m","n","o","p","q","r","s","t","u","v","w","x","y","z">>

UPPER == {UpperSeq[i] : i \in 1..26}

LOWER == {LowerSeq[i] : i \in 1..26}

DIGIT == {"0", "1", "2", "3", "4", "5", "6", "7", "8", "9"}

WORDCH == UPPER \cup LOWER \cup DIGIT \cup {"_"}

SPACE == {" ", "\t", "\n"}

ToLowerCh(c) ==
    IF c \in UPPER THEN LowerSeq[CHOOSE i \in 1..26 : UpperSeq[i] = c] ELSE c

ToUpperCh(c) ==
    IF c \in LOWER THEN UpperSeq[CHOOSE i \in 1..26 : LowerSeq[i] = c] ELSE c

lower(s) == [i \in 1..Len(s) |-> ToLowerCh(s[i])] \o <<>>

upper(s) == [i \in 1..Len(s) |-> ToUpperCh(s[i])] \o <<>>

SetMin(S) == CHOOSE x \in S : \A y \in S : x <= y

\* str.strip()
strip(s) ==
    LET keep == {i \in 1..Len(s) : s[i] \notin SPACE}
    IN  IF keep = {} THEN <<>>
        ELSE SubSeq(s, SetMin(keep), CHOOSE x \in keep : \A y \in keep : x >= y)

\* str.split(): the maximal runs of non-whitespace characters, in order
split(s) ==
    LET starts == {i \in 1..Len(s) : s[i] \notin SPACE /\ (i = 1 \/ s[i-1] \in SPACE)}
        wordEnd(i) == SetMin({j \in i..Len(s) : j = Len(s) \/ s[j+1] \in SPACE})
        nth[k \in 0..Cardinality(starts)] ==
            IF k = 0 THEN 0 ELSE SetMin({i \in starts : i > nth[k-1]})
    IN  [k \in 1..Cardinality(starts) |-> SubSeq(s, nth[k], wordEnd(nth[k]))] \o <<>>

\* str.split(c): the pieces of s between the occurrences of the character c
SplitOn(s, c) ==
    LET cuts == {i \in 1..Len(s) : s[i] = c}
        n == Cardinality(cuts)
        cutAt[k \in 0..(n + 1)] ==
            IF k = 0 THEN 0
            ELSE IF k = n + 1 THEN Len(s) + 1
            ELSE SetMin({i \in cuts : i > cutAt[k-1]})
    IN  [k \in 1..(n + 1) |-> SubSeq(s, cutAt[k-1] + 1, cutAt[k] - 1)] \o <<>>

RECURSIVE JoinWith(_, _)
\* sep.join(parts)
JoinWith(sep, parts) ==
    IF parts = <<>> THEN <<>>
    ELSE IF Len(parts) = 1 THEN parts[1]
    ELSE parts[1] \o sep \o JoinWith(sep, Tail(parts))

\* Python's "t in s" for strings
Contains(s, t) ==
    \E i \in 1..(Len(s) + 1) :
        /\ i + Len(t) - 1 <= Len(s)
        /\ \A k \in 1..Len(t) : s[i+k-1] = t[k]

\* "x in list" for a tuple
InSeq(x, xs) == \E i \in 1..Len(xs) : xs[i] = x

\* the least i in 1..n with ok[i], or 0 (ok is a tuple of Booleans)
FirstTrue(ok) ==
    IF \A i \in 1..Len(ok) : ~ok[i] THEN 0
    ELSE CHOOSE i \in 1..Len(ok) : ok[i] /\ \A k \in 1..(i-1) : ~ok[k]

RECURSIVE FlattenFrom(_, _, _)
FlattenFrom(M, j, acc) ==
    IF j > Len(M) THEN acc
    ELSE FlattenFrom(M, j + 1, acc \o SelectSeq(M[j], LAMBDA e : ~InSeq(e, acc)))

\* the concatenation of the sequences M[1], M[2], ..., without repetitions
\* (the first occurrence of every element is the one kept)
Flatten(M) ==
    LET live == SelectSeq(M, LAMBDA m : m # <<>>)
    IN  IF live = <<>> THEN <<>>
        ELSE IF Len(live) = 1 THEN live[1]
        ELSE FlattenFrom(live, 1, <<>>)

(***************************************************************************)
(* Python values: None, strings and tuples, with Python truthiness         *)
(***************************************************************************)
None == [tag |-> "None"]

PyStr(s) == [tag |-> "str", v |-> s]

PyTuple(items) == [tag |-> "tuple", v |-> items]

\* bool(x): None and empty strings / tuples are false, anything else true
Truthy(x) == IF x.tag = "None" THEN FALSE ELSE Len(x.v) > 0

(***************************************************************************)
(* Regular expressions (module re)                                         *)
(***************************************************************************)
\* A regular expression is a record: [k |-> "set", cs, neg] a character class
\* (negated when neg), [k |-> "lit", s] a literal text, [k |-> "cat", xs] a
\* sequence, [k |-> "alt", xs] alternatives, [k |-> "rep", x, lo, hi, open,
\* lazy] the quantifier x{lo,hi} (x{lo,} when open; lazy for the ? form),
\* [k |-> "bol"], [k |-> "eol"] and [k |-> "wb"] for ^, $ and \b.

\* does character c belong to the class r (ic: re.IGNORECASE)
ChIn(c, r, ic) ==
    (c \in r.cs \/ (ic /\ (ToLowerCh(c) \in r.cs \/ ToUpperCh(c) \in r.cs))) # r.neg

RECURSIVE Match(_, _, _, _)
RECURSIVE CatEnds(_, _, _, _, _)
RECURSIVE RepFrom(_, _, _, _, _, _, _, _)
RECURSIVE RepFold(_, _, _, _, _, _, _, _, _)
RECURSIVE First(_, _, _, _)
RECURSIVE RepFirst(_, _, _, _, _, _, _)
RECURSIVE RepFirstFold(_, _, _, _, _, _, _, _, _)

\* The positions at which a match of r that starts at position i of s can
\* end, in the order in which a backtracking matcher tries them.  An open
\* quantifier is limited by the length of s only.
Match(r, s, i, ic) ==
    LET isWord(j) == j >= 1 /\ j <= Len(s) /\ s[j] \in WORDCH
        \* x{lo,hi} for a character class x: the run of class characters from i
        isStop(j) == j = Len(s) + 1 \/ ~ChIn(s[j], r.x, ic)
        runEnds(lo, top) ==
            IF top < lo THEN <<>>
            ELSE [n \in 1..(top - lo + 1) |->
                     IF r.lazy THEN i + lo + n - 1 ELSE i + top - n + 1] \o <<>>
        upTo(run, hi) == runEnds(r.lo, IF run < hi THEN run ELSE hi)
    IN
    CASE r.k = "set" -> IF i <= Len(s) /\ ChIn(s[i], r, ic) THEN <<i + 1>> ELSE <<>>
      [] r.k = "lit" ->
            IF /\ i + Len(r.s) - 1 <= Len(s)
               /\ \A n \in 1..Len(r.s) :
                      \/ s[i + n - 1] = r.s[n]
                      \/ ic /\ ToLowerCh(s[i + n - 1]) = ToLowerCh(r.s[n])
            THEN <<i + Len(r.s)>> ELSE <<>>
      [] r.k = "bol" -> IF i = 1 THEN <<i>> ELSE <<>>
      [] r.k = "eol" -> IF i = Len(s) + 1 THEN <<i>> ELSE <<>>
      [] r.k = "wb"  -> IF isWord(i - 1) # isWord(i) THEN <<i>> ELSE <<>>
      [] r.k = "cat" -> CatEnds(r.xs, 1, s, <<i>>, ic)
      [] r.k = "alt" -> Flatten([n \in 1..Len(r.xs) |-> Match(r.xs[n], s, i, ic)] \o <<>>)
      [] r.k = "rep" ->
            IF r.x.k = "set"
            THEN upTo((CHOOSE j \in i..(Len(s) + 1) :
                           isStop(j) /\ \A n \in i..(j - 1) : ~isStop(n)) - i,
                      IF r.open THEN Len(s) + 1 ELSE r.hi)
            ELSE RepFrom(r.x, r.lo, IF r.open THEN Len(s) + 1 ELSE r.hi, r.lazy,
                         s, ic, i, [ends |-> <<>>, seen |-> {}]).ends

\* the ends of xs[n] xs[n+1] ... started at each of the positions starts
CatEnds(xs, n, s, starts, ic) ==
    IF n > Len(xs) \/ starts = <<>> THEN starts
    ELSE CatEnds(xs, n + 1, s,
                 Flatten([j \in 1..Len(starts) |-> Match(xs[n], s, starts[j], ic)] \o <<>>),
                 ic)

\* x{lo,hi} for any x, depth first from position i; acc.ends are the ends
\* found so far and acc.seen the (position, lo, hi) already visited
RepFrom(x, lo, hi, lazy, s, ic, i, acc) ==
    LET \* position i is itself an end when no more repetitions are required
        here(on, found) ==
            IF ~on \/ lo > 0 \/ InSeq(i, found.ends) THEN found
            ELSE [found EXCEPT !.ends = Append(@, i)]
    IN  IF <<i, lo, hi>> \in acc.seen THEN acc
        ELSE here(~lazy,
                  RepFold(x, IF lo > 0 THEN lo - 1 ELSE 0,
                          IF hi > Len(s) THEN hi ELSE hi - 1, lazy, s, ic,
                          IF hi = 0 THEN <<>>
                          ELSE SelectSeq(Match(x, s, i, ic), LAMBDA e : e # i),
                          1,
                          here(lazy, [acc EXCEPT !.seen = @ \cup {<<i, lo, hi>>}])))

RepFold(x, lo, hi, lazy, s, ic, one, n, acc) ==
    IF n > Len(one) THEN acc
    ELSE RepFold(x, lo, hi, lazy, s, ic, one, n + 1,
                 RepFrom(x, lo, hi, lazy, s, ic, one[n], acc))

\* The end of the match of r at position i that a backtracking matcher finds
\* first, or 0 when r does not match at i.
First(r, s, i, ic) ==
    LET \* the first non-zero entry of F, or 0
        pick(F, n1) == IF n1 = 0 THEN 0 ELSE F[n1]
        pickFirst(F) == pick(F, FirstTrue([n \in 1..Len(F) |-> F[n] # 0] \o <<>>))
        \* the first end of x started at the positions E, tried in order
        via(x, E) == pickFirst([n \in 1..Len(E) |-> First(x, s, E[n], ic)] \o <<>>)
        firstOf(m) == IF m = <<>> THEN 0 ELSE m[1]
    IN
    CASE r.k = "cat" /\ r.xs = <<>> -> i
      [] r.k = "cat" /\ r.xs # <<>> ->
            via(r.xs[Len(r.xs)],
                CatEnds(SubSeq(r.xs, 1, Len(r.xs) - 1), 1, s, <<i>>, ic))
      [] r.k = "alt" ->
            pickFirst([n \in 1..Len(r.xs) |-> First(r.xs[n], s, i, ic)] \o <<>>)
      [] r.k = "rep" /\ r.x.k # "set" ->
            RepFirst(r.x, r.lo, IF r.open THEN Len(s) + 1 ELSE r.hi, r.lazy, s, ic, i)
      [] OTHER -> firstOf(Match(r, s, i, ic))

RepFirst(x, lo, hi, lazy, s, ic, i) ==
    IF hi = 0 \/ (lazy /\ lo <= 0) THEN i
    ELSE RepFirstFold(x, lo, hi, lazy, s, ic, i,
                      SelectSeq(Match(x, s, i, ic), LAMBDA e : e # i), 1)

RepFirstFold(x, lo, hi, lazy, s, ic, i, one, n) ==
    LET orNext(e) == IF e # 0 THEN e
                     ELSE RepFirstFold(x, lo, hi, lazy, s, ic, i, one, n + 1)
    IN  IF n > Len(one) THEN (IF lo <= 0 THEN i ELSE 0)
        ELSE orNext(RepFirst(x, IF lo > 0 THEN lo - 1 ELSE 0,
                             IF hi > Len(s) THEN hi ELSE hi - 1, lazy, s, ic, one[n]))

NoMatch == [start |-> 0, end |-> 0]

\* re.search(r, s): the leftmost match, or NoMatch
Search(r, s, ic) ==
    LET \* F[i] is the first end of a match that starts at i, or 0
        at(F, first) == IF first = 0 THEN NoMatch ELSE [start |-> first, end |-> F[first]]
        leftMost(F) == at(F, FirstTrue([i \in 1..Len(F) |-> F[i] # 0] \o <<>>))
    IN  leftMost([i \in 1..(Len(s) + 1) |-> First(r, s, i, ic)] \o <<>>)

Found(r, s, ic) == \E i \in 1..(Len(s) + 1) : First(r, s, i, ic) # 0

\* re.search of (pre)(grp)(post): the leftmost match with the text of the
\* whole match (group 0) and of the capture group (group 1), or None
SearchGroups(pre, grp, post, s, ic) ==
    LET nothing == [k |-> "cat", xs |-> <<>>]
        single(e) == IF e = 0 THEN <<>> ELSE <<e>>
        \* the ends of the group started at p; when nothing follows the group
        \* only the end found first matters
        groupEnds(p) ==
            IF post = nothing THEN single(First(grp, s, p, ic))
            ELSE Match(grp, s, p, ic)
        \* P are the ends of the part before the group, G[n] the ends of the
        \* group started at P[n]; ok[n][m] says whether the rest matches after
        \* G[n][m], and pn is the first n with such an m
        chosen(whole, P, G, ok, pn) ==
            [tag |-> "match",
             group0 |-> SubSeq(s, whole.start, whole.end - 1),
             group1 |-> SubSeq(s, P[pn], G[pn][FirstTrue(ok[pn])] - 1)]
        result(whole, P, G, ok) ==
            chosen(whole, P, G, ok,
                   FirstTrue([n \in 1..Len(P) |-> FirstTrue(ok[n]) # 0] \o <<>>))
        tried(whole, P, G) ==
            result(whole, P, G,
                [n \in 1..Len(P) |->
                    [m \in 1..Len(G[n]) |-> First(post, s, G[n][m], ic) # 0] \o <<>>] \o <<>>)
        from(whole, P) ==
            tried(whole, P, [n \in 1..Len(P) |-> groupEnds(P[n])] \o <<>>)
        groups(whole) ==
            IF whole = NoMatch THEN None
            ELSE from(whole, Match(pre, s, whole.start, ic))
    IN  groups(Search([k |-> "cat",
                       xs |-> IF post = nothing THEN <<pre, grp>>
                              ELSE <<pre, grp, post>>], s, ic))

\* match.group(1) of re.search, as a Python value (None when there is no match)
SearchGroup(pre, grp, post, s, ic) ==
    LET group1(m) == IF m = None THEN None ELSE PyStr(m.group1)
    IN  group1(SearchGroups(pre, grp, post, s, ic))

RECURSIVE SubFrom(_, _, _, _, _)
\* re.sub from position i of s on
SubFrom(r, repl, s, ic, i) ==
    LET \* e is the end of the match at i, or 0
        step(e) ==
            IF i > Len(s) THEN (IF e # 0 THEN repl ELSE <<>>)
            ELSE IF e = 0 THEN <<s[i]>> \o SubFrom(r, repl, s, ic, i + 1)
            ELSE IF e = i THEN repl \o <<s[i]>> \o SubFrom(r, repl, s, ic, i + 1)
            ELSE repl \o SubFrom(r, repl, s, ic, e)
    IN  step(First(r, s, i, ic))

\* re.sub(r, repl, s)
Sub(r, repl, s, ic) == SubFrom(r, repl, s, ic, 1)

\* All sequences over S of length at most n
SeqsUpTo(S, n) == UNION {[1..k -> S] : k \in 0..n}

(***************************************************************************)
(* pdf_header_analyzer.py, class PDFHeaderAnalyzer                         *)
(***************************************************************************)
is_table_header(line0) ==
    LET table_header_combinations ==
        << <<<<"d","a","t","e">>, <<"p","a","r","t","i","c","u","l","a","r","s">>>>,
           <<<<"d","a","t","e">>, <<"d","e","s","c","r","i","p","t","i","o","n">>>>,
           <<<<"d","a","t","e">>, <<"n","a","r","r","a","t","i","o","n">>>>,
           <<<<"d","a","t","e">>, <<"t","r","a","n","s","a","c","t","i","o","n">>>>,
           <<<<"t","x","n">>, <<"d","a","t","e">>>>,
           <<<<"v","a","l","u","e">>, <<"d","a","t","e">>>>,
           <<<<"t","r","a","n","s","a","c","t","i","o","n">>, <<"d","e","t","a","i","l","s">>>> >>
    IN
    LET table_column_terms ==
            { <<"d","a","t","e">>, <<"p","a","r","t","i","c","u","l","a","r","s">>, <<"d","e","s","c","r","i","p","t","i","o","n">>, <<"d","e","b","i","t">>, <<"c","r","e","d","i","t">>,
              <<"w","i","t","h","d","r","a","w","a","l">>, <<"d","e","p","o","s","i","t">>, <<"b","a","l","a","n","c","e">>, <<"a","m","o","u","n","t">>, <<"c","h","q">>, <<"r","e","f">>,
              <<"n","a","r","r","a","t","i","o","n">>, <<"t","r","a","n","s","a","c","t","i","o","n">>, <<"d","e","t","a","i","l","s">> }
        line == lower(line0)
        columns == split(line)
        matching_terms == Cardinality({k \in 1..Len(columns) :
                                          columns[k] \in table_column_terms})
    IN  \/ \E c \in 1..Len(table_header_combinations) :
              \A t \in 1..Len(table_header_combinations[c]) :
                  Contains(line, table_header_combinations[c][t])
        \/ matching_terms >= 3

\* has_date: re.match(r"^\s*\d{1,2}[-/.]\d{1,2}[-/.]\d{2,4}", line)
is_transaction_line(line0) ==
    \* r"\d+,\d{3}\.\d{2}", r"\d+\.\d{2}\s*(?:cr|dr)?", r"(?:cr|dr)\s*\d+\.\d{2}"
    LET amount_patterns ==
        << 
    [k |-> "cat", xs |-> <<[k |-> "rep", x |-> [k |-> "set", cs |-> DIGIT, neg |-> FALSE], lo |-> 1, hi |-> 1, open |-> TRUE, lazy |-> FALSE], [k |-> "lit", s |-> <<",">>], [k |-> "rep", x |-> [k |-> "set", cs |-> DIGIT, neg |-> FALSE], lo |-> 3, hi |-> 3, open |-> FALSE, lazy |-> FALSE], [k |-> "lit", s |-> <<".">>], [k |-> "rep", x |-> [k |-> "set", cs |-> DIGIT, neg |-> FALSE], lo |-> 2, hi |-> 2, open |-> FALSE, lazy |-> FALSE]>>]
        ,
    [k |-> "cat", xs |-> <<[k |-> "rep", x |-> [k |-> "set", cs |-> DIGIT, neg |-> FALSE], lo |-> 1, hi |-> 1, open |-> TRUE, lazy |-> FALSE], [k |-> "lit", s |-> <<".">>], [k |-> "rep", x |-> [k |-> "set", cs |-> DIGIT, neg |-> FALSE], lo |-> 2, hi |-> 2, open |-> FALSE, lazy |-> FALSE], [k |-> "rep", x |-> [k |-> "set", cs |-> SPACE, neg |-> FALSE], lo |-> 0, hi |-> 0, open |-> TRUE, lazy |-> FALSE], [k |-> "rep", x |-> [k |-> "alt", xs |-> <<[k |-> "lit", s |-> <<"c","r">>], [k |-> "lit", s |-> <<"d","r">>]>>], lo |-> 0, hi |-> 1, open |-> FALSE, lazy |-> FALSE]>>]
        ,
    [k |-> "cat", xs |-> <<[k |-> "alt", xs |-> <<[k |-> "lit", s |-> <<"c","r">>], [k |-> "lit", s |-> <<"d","r">>]>>], [k |-> "rep", x |-> [k |-> "set", cs |-> SPACE, neg |-> FALSE], lo |-> 0, hi |-> 0, open |-> TRUE, lazy |-> FALSE], [k |-> "rep", x |-> [k |-> "set", cs |-> DIGIT, neg |-> FALSE], lo |-> 1, hi |-> 1, open |-> TRUE, lazy |-> FALSE], [k |-> "lit", s |-> <<".">>], [k |-> "rep", x |-> [k |-> "set", cs |-> DIGIT, neg |-> FALSE], lo |-> 2, hi |-> 2, open |-> FALSE, lazy |-> FALSE]>>]
        >>
    IN
    LET date_pattern ==
    [k |-> "cat", xs |-> <<[k |-> "bol"], [k |-> "rep", x |-> [k |-> "set", cs |-> SPACE, neg |-> FALSE], lo |-> 0, hi |-> 0, open |-> TRUE, lazy |-> FALSE], [k |-> "rep", x |-> [k |-> "set", cs |-> DIGIT, neg |-> FALSE], lo |-> 1, hi |-> 2, open |-> FALSE, lazy |-> FALSE], [k |-> "set", cs |-> {"-", "/", "."}, neg |-> FALSE], [k |-> "rep", x |-> [k |-> "set", cs |-> DIGIT, neg |-> FALSE], lo |-> 1, hi |-> 2, open |-> FALSE, lazy |-> FALSE], [k |-> "set", cs |-> {"-", "/", "."}, neg |-> FALSE], [k |-> "rep", x |-> [k |-> "set", cs |-> DIGIT, neg |-> FALSE], lo |-> 2, hi |-> 4, open |-> FALSE, lazy |-> FALSE]>>]
        line == lower(line0)
        has_date == First(date_pattern, line, 1, FALSE) # 0
        has_amount == \E p \in 1..Len(amount_patterns) :
                          Found(amount_patterns[p], line, TRUE)
    IN  has_date /\ has_amount

(***************************************************************************)
(* header_data_filter.py                                                   *)
(***************************************************************************)
\* account_patterns of extract_account_number, each as the parts before, in
\* and after its group:
\* r'(?i).*account.*?(?:no|number|#).*?(\d{10,})'
\* r'(?i)a/c.*?(?:no|number|#).*?(\d{10,})'
\* r'(?i)(?:acc|account).*?:.*?(\d{10,})'
account_patterns ==
    << <<
    [k |-> "cat", xs |-> <<[k |-> "rep", x |-> [k |-> "set", cs |-> {"\n"}, neg |-> TRUE], lo |-> 0, hi |-> 0, open |-> TRUE, lazy |-> FALSE], [k |-> "lit", s |-> <<"a","c","c","o","u","n","t">>], [k |-> "rep", x |-> [k |-> "set", cs |-> {"\n"}, neg |-> TRUE], lo |-> 0, hi |-> 0, open |-> TRUE, lazy |-> TRUE], [k |-> "alt", xs |-> <<[k |-> "lit", s |-> <<"n","o">>], [k |-> "lit", s |-> <<"n","u","m","b","e","r">>], [k |-> "lit", s |-> <<"#">>]>>], [k |-> "rep", x |-> [k |-> "set", cs |-> {"\n"}, neg |-> TRUE], lo |-> 0, hi |-> 0, open |-> TRUE, lazy |-> TRUE]>>], [k |-> "rep", x |-> [k |-> "set", cs |-> DIGIT, neg |-> FALSE], lo |-> 10, hi |-> 10, open |-> TRUE, lazy |-> FALSE], [k |-> "cat", xs |-> <<>>]
    >>, <<
    [k |-> "cat", xs |-> <<[k |-> "lit", s |-> <<"a","/","c">>], [k |-> "rep", x |-> [k |-> "set", cs |-> {"\n"}, neg |-> TRUE], lo |-> 0, hi |-> 0, open |-> TRUE, lazy |-> TRUE], [k |-> "alt", xs |-> <<[k |-> "lit", s |-> <<"n","o">>], [k |-> "lit", s |-> <<"n","u","m","b","e","r">>], [k |-> "lit", s |-> <<"#">>]>>], [k |-> "rep", x |-> [k |-> "set", cs |-> {"\n"}, neg |-> TRUE], lo |-> 0, hi |-> 0, open |-> TRUE, lazy |-> TRUE]>>], [k |-> "rep", x |-> [k |-> "set", cs |-> DIGIT, neg |-> FALSE], lo |-> 10, hi |-> 10, open |-> TRUE, lazy |-> FALSE], [k |-> "cat", xs |-> <<>>]
    >>, <<
    [k |-> "cat", xs |-> <<[k |-> "lit", s |-> <<"a","c","c">>], [k |-> "alt", xs |-> <<[k |-> "cat", xs |-> <<>>], [k |-> "lit", s |-> <<"o","u","n","t">>]>>], [k |-> "rep", x |-> [k |-> "set", cs |-> {"\n"}, neg |-> TRUE], lo |-> 0, hi |-> 0, open |-> TRUE, lazy |-> TRUE], [k |-> "lit", s |-> <<":">>], [k |-> "rep", x |-> [k |-> "set", cs |-> {"\n"}, neg |-> TRUE], lo |-> 0, hi |-> 0, open |-> TRUE, lazy |-> TRUE]>>], [k |-> "rep", x |-> [k |-> "set", cs |-> DIGIT, neg |-> FALSE], lo |-> 10, hi |-> 10, open |-> TRUE, lazy |-> FALSE], [k |-> "cat", xs |-> <<>>]
    >> >>

\* returns the pair (number, matched text), or (None, None).  When no
\* account pattern matches, the lines of text without a transaction word,
\* r'(?i)(balance|credit|debit|amount|date|transaction)', are searched for a
\* bare number, r'\b(\d{10,})\b'.
extract_account_number(text) ==
    LET transaction_words ==
    [k |-> "alt", xs |-> <<[k |-> "lit", s |-> <<"b","a","l","a","n","c","e">>], [k |-> "lit", s |-> <<"c","r","e","d","i","t">>], [k |-> "lit", s |-> <<"d","e","b","i","t">>], [k |-> "lit", s |-> <<"a","m","o","u","n","t">>], [k |-> "lit", s |-> <<"d","a","t","e">>], [k |-> "lit", s |-> <<"t","r","a","n","s","a","c","t","i","o","n">>]>>]
        bare_number == <<
    [k |-> "wb"], [k |-> "rep", x |-> [k |-> "set", cs |-> DIGIT, neg |-> FALSE], lo |-> 10, hi |-> 10, open |-> TRUE, lazy |-> FALSE], [k |-> "wb"]
        >>
        plainNumbers(parts) ==
            [k \in 1..Len(parts) |->
                IF Found(transaction_words, parts[k], TRUE) THEN None
                ELSE SearchGroup(bare_number[1], bare_number[2], bare_number[3],
                                 parts[k], FALSE)] \o <<>>
        \* first: the first account pattern that matches; firstPlain: the
        \* first line with a bare number
        picked(hits, parts, plain, first, firstPlain) ==
            IF first # 0
            THEN PyTuple(<<PyStr(hits[first].group1), PyStr(hits[first].group0)>>)
            ELSE IF firstPlain # 0
            THEN PyTuple(<<plain[firstPlain], PyStr(parts[firstPlain])>>)
            ELSE PyTuple(<<None, None>>)
        \* hits[p] is the match of account_patterns[p]; plain[k] the bare
        \* number of line k
        accountFrom(hits, parts, plain) ==
            picked(hits, parts, plain,
                   FirstTrue([p \in 1..Len(hits) |-> hits[p] # None] \o <<>>),
                   FirstTrue([k \in 1..Len(parts) |-> plain[k] # None] \o <<>>))
    IN  accountFrom([p \in 1..Len(account_patterns) |->
                        SearchGroups(account_patterns[p][1], account_patterns[p][2],
                                     account_patterns[p][3], text, TRUE)] \o <<>>,
                    SplitOn(text, "\n"),
                    plainNumbers(SplitOn(text, "\n")))

is_branch_line(k, ls) ==
    \* find_name_line.is_branch_line; k is the index from 1 of the line
    LET branch_indicators ==
        << <<"B","R","A","N","C","H"," ","N","A","M","E">>, <<"B","R","A","N","C","H"," ","C","O","D","E">>, <<"B","R","A","N","C","H"," ","A","D","D","R","E","S","S">>,
           <<"S","O","L"," ","I","D">>, <<"U","M","F","B">>, <<"A","N","K","L","E","S","H","W","A","R"," ","B","R","A","N","C","H">> >>
    IN
    IF k > Len(ls) THEN FALSE
    ELSE LET current_line == upper(strip(ls[k]))
             next_line == IF k + 1 <= Len(ls) THEN upper(strip(ls[k + 1])) ELSE <<>>
         IN  \/ \E n \in 1..Len(branch_indicators) :
                    Contains(current_line, branch_indicators[n])
             \/ Contains(current_line, <<"B","R","A","N","C","H">>) /\ Contains(next_line, <<"N","A","M","E">>)

RECURSIVE SubAll(_, _, _, _)
\* applies re.sub(subs[n], '', .) for n, n+1, ... to s
SubAll(subs, n, s, ic) ==
    IF n > Len(subs) THEN s
    ELSE SubAll(subs, n + 1, Sub(subs[n], <<>>, s, ic), ic)

\* find_name_line.clean_extracted_name; name is a Python value
clean_extracted_name(name) ==
    LET \* the re.sub calls, in order (all with re.IGNORECASE, all replacing
        \* by the empty string)
        clean_name_subs == <<
    [k |-> "cat", xs |-> <<[k |-> "bol"], [k |-> "lit", s |-> <<"Y","O","U","R">>], [k |-> "rep", x |-> [k |-> "set", cs |-> SPACE, neg |-> FALSE], lo |-> 1, hi |-> 1, open |-> TRUE, lazy |-> FALSE], [k |-> "lit", s |-> <<"D","E","T","A","I","L">>], [k |-> "rep", x |-> [k |-> "lit", s |-> <<"S">>], lo |-> 0, hi |-> 1, open |-> FALSE, lazy |-> FALSE], [k |-> "rep", x |-> [k |-> "set", cs |-> SPACE, neg |-> FALSE], lo |-> 1, hi |-> 1, open |-> TRUE, lazy |-> FALSE], [k |-> "rep", x |-> [k |-> "cat", xs |-> <<[k |-> "lit", s |-> <<"W","I","T","H">>], [k |-> "rep", x |-> [k |-> "set", cs |-> SPACE, neg |-> FALSE], lo |-> 1, hi |-> 1, open |-> TRUE, lazy |-> FALSE]>>], lo |-> 0, hi |-> 1, open |-> FALSE, lazy |-> FALSE], [k |-> "rep", x |-> [k |-> "alt", xs |-> <<[k |-> "lit", s |-> <<"U","S">>], [k |-> "lit", s |-> <<"A","R","E">>]>>], lo |-> 0, hi |-> 1, open |-> FALSE, lazy |-> FALSE], [k |-> "rep", x |-> [k |-> "set", cs |-> SPACE \cup {":"}, neg |-> FALSE], lo |-> 1, hi |-> 1, open |-> TRUE, lazy |-> FALSE]>>]
    ,
    [k |-> "cat", xs |-> <<[k |-> "bol"], [k |-> "alt", xs |-> <<[k |-> "lit", s |-> <<"C","U","S","T","O","M","E","R">>], [k |-> "lit", s |-> <<"A","C","C","O","U","N","T">>]>>], [k |-> "rep", x |-> [k |-> "set", cs |-> SPACE, neg |-> FALSE], lo |-> 1, hi |-> 1, open |-> TRUE, lazy |-> FALSE], [k |-> "lit", s |-> <<"D","E","T","A","I","L">>], [k |-> "rep", x |-> [k |-> "lit", s |-> <<"S">>], lo |-> 0, hi |-> 1, open |-> FALSE, lazy |-> FALSE], [k |-> "rep", x |-> [k |-> "set", cs |-> SPACE, neg |-> FALSE], lo |-> 0, hi |-> 0, open |-> TRUE, lazy |-> FALSE], [k |-> "rep", x |-> [k |-> "set", cs |-> SPACE \cup {":"}, neg |-> FALSE], lo |-> 1, hi |-> 1, open |-> TRUE, lazy |-> FALSE]>>]
    ,
    [k |-> "cat", xs |-> <<[k |-> "lit", s |-> <<"F","R","O","M">>], [k |-> "rep", x |-> [k |-> "set", cs |-> SPACE, neg |-> FALSE], lo |-> 1, hi |-> 1, open |-> TRUE, lazy |-> FALSE], [k |-> "lit", s |-> <<"D","A","T","E">>], [k |-> "rep", x |-> [k |-> "set", cs |-> {"\n"}, neg |-> TRUE], lo |-> 0, hi |-> 0, open |-> TRUE, lazy |-> FALSE]>>]
    ,
    [k |-> "cat", xs |-> <<[k |-> "lit", s |-> <<"T","O">>], [k |-> "rep", x |-> [k |-> "set", cs |-> SPACE, neg |-> FALSE], lo |-> 1, hi |-> 1, open |-> TRUE, lazy |-> FALSE], [k |-> "lit", s |-> <<"D","A","T","E">>], [k |-> "rep", x |-> [k |-> "set", cs |-> {"\n"}, neg |-> TRUE], lo |-> 0, hi |-> 0, open |-> TRUE, lazy |-> FALSE]>>]
    ,
    [k |-> "cat", xs |-> <<[k |-> "lit", s |-> <<"B","R","A","N","C","H">>], [k |-> "rep", x |-> [k |-> "set", cs |-> {"\n"}, neg |-> TRUE], lo |-> 0, hi |-> 0, open |-> TRUE, lazy |-> FALSE]>>]
    ,
    [k |-> "cat", xs |-> <<[k |-> "lit", s |-> <<"U","M","F","B">>], [k |-> "rep", x |-> [k |-> "set", cs |-> {"\n"}, neg |-> TRUE], lo |-> 0, hi |-> 0, open |-> TRUE, lazy |-> FALSE]>>]
    ,
    [k |-> "cat", xs |-> <<[k |-> "lit", s |-> <<"A","N","K","L","E","S","H","W","A","R">>], [k |-> "rep", x |-> [k |-> "set", cs |-> {"\n"}, neg |-> TRUE], lo |-> 0, hi |-> 0, open |-> TRUE, lazy |-> FALSE]>>]
    ,
    [k |-> "cat", xs |-> <<[k |-> "lit", s |-> <<"M","I","C","R">>], [k |-> "rep", x |-> [k |-> "set", cs |-> {"\n"}, neg |-> TRUE], lo |-> 0, hi |-> 0, open |-> TRUE, lazy |-> FALSE]>>]
    ,
    [k |-> "cat", xs |-> <<[k |-> "lit", s |-> <<"I","F","S","C">>], [k |-> "rep", x |-> [k |-> "set", cs |-> {"\n"}, neg |-> TRUE], lo |-> 0, hi |-> 0, open |-> TRUE, lazy |-> FALSE]>>]
        >>
        \* "if len(name) < 2 or any(word in name.upper() for word in [...])"
        rejected_name_words == << <<"B","R","A","N","C","H">>, <<"B","A","N","K">>, <<"U","M","F","B">>, <<"D","E","T","A","I","L","S">> >>
        validName(cleaned) ==
            IF \/ Len(cleaned) < 2
               \/ \E w \in 1..Len(rejected_name_words) :
                      Contains(upper(cleaned), rejected_name_words[w])
            THEN None
            ELSE PyStr(cleaned)
    IN  IF ~Truthy(name) THEN None
        ELSE validName(JoinWith(<<" ">>, split(SubAll(clean_name_subs, 1, name.v, TRUE))))

\* Step 1, body of the loop for one stripped line: some explicit name
\* indicator matches and the captured text cleans to a valid name
Step1Matches(line) ==
    \* Step 1 patterns: NAME, CUSTOMER NAME, A/C NAME, ACCOUNT NAME followed by
    \* \s*([A-Z][A-Z\s\.&]+?)(?:\s+FROM|\s+MICR|\s+TO|\s+BRANCH|$), all with (?i)
    LET name_indicators ==
        << <<
    [k |-> "cat", xs |-> <<[k |-> "lit", s |-> <<"N","A","M","E">>], [k |-> "rep", x |-> [k |-> "set", cs |-> SPACE, neg |-> FALSE], lo |-> 0, hi |-> 0, open |-> TRUE, lazy |-> FALSE]>>], [k |-> "cat", xs |-> <<[k |-> "set", cs |-> UPPER, neg |-> FALSE], [k |-> "rep", x |-> [k |-> "set", cs |-> UPPER \cup SPACE \cup {".", "&"}, neg |-> FALSE], lo |-> 1, hi |-> 1, open |-> TRUE, lazy |-> TRUE]>>], [k |-> "alt", xs |-> <<[k |-> "cat", xs |-> <<[k |-> "rep", x |-> [k |-> "set", cs |-> SPACE, neg |-> FALSE], lo |-> 1, hi |-> 1, open |-> TRUE, lazy |-> FALSE], [k |-> "lit", s |-> <<"F","R","O","M">>]>>], [k |-> "cat", xs |-> <<[k |-> "rep", x |-> [k |-> "set", cs |-> SPACE, neg |-> FALSE], lo |-> 1, hi |-> 1, open |-> TRUE, lazy |-> FALSE], [k |-> "lit", s |-> <<"M","I","C","R">>]>>], [k |-> "cat", xs |-> <<[k |-> "rep", x |-> [k |-> "set", cs |-> SPACE, neg |-> FALSE], lo |-> 1, hi |-> 1, open |-> TRUE, lazy |-> FALSE], [k |-> "lit", s |-> <<"T","O">>]>>], [k |-> "cat", xs |-> <<[k |-> "rep", x |-> [k |-> "set", cs |-> SPACE, neg |-> FALSE], lo |-> 1, hi |-> 1, open |-> TRUE, lazy |-> FALSE], [k |-> "lit", s |-> <<"B","R","A","N","C","H">>]>>], [k |-> "eol"]>>]
        >>, <<
    [k |-> "cat", xs |-> <<[k |-> "lit", s |-> <<"C","U","S","T","O","M","E","R">>], [k |-> "rep", x |-> [k |-> "set", cs |-> SPACE, neg |-> FALSE], lo |-> 0, hi |-> 0, open |-> TRUE, lazy |-> FALSE], [k |-> "lit", s |-> <<"N","A","M","E">>], [k |-> "rep", x |-> [k |-> "set", cs |-> SPACE, neg |-> FALSE], lo |-> 0, hi |-> 0, open |-> TRUE, lazy |-> FALSE]>>], [k |-> "cat", xs |-> <<[k |-> "set", cs |-> UPPER, neg |-> FALSE], [k |-> "rep", x |-> [k |-> "set", cs |-> UPPER \cup SPACE \cup {".", "&"}, neg |-> FALSE], lo |-> 1, hi |-> 1, open |-> TRUE, lazy |-> TRUE]>>], [k |-> "alt", xs |-> <<[k |-> "cat", xs |-> <<[k |-> "rep", x |-> [k |-> "set", cs |-> SPACE, neg |-> FALSE], lo |-> 1, hi |-> 1, open |-> TRUE, lazy |-> FALSE], [k |-> "lit", s |-> <<"F","R","O","M">>]>>], [k |-> "cat", xs |-> <<[k |-> "rep", x |-> [k |-> "set", cs |-> SPACE, neg |-> FALSE], lo |-> 1, hi |-> 1, open |-> TRUE, lazy |-> FALSE], [k |-> "lit", s |-> <<"M","I","C","R">>]>>], [k |-> "cat", xs |-> <<[k |-> "rep", x |-> [k |-> "set", cs |-> SPACE, neg |-> FALSE], lo |-> 1, hi |-> 1, open |-> TRUE, lazy |-> FALSE], [k |-> "lit", s |-> <<"T","O">>]>>], [k |-> "cat", xs |-> <<[k |-> "rep", x |-> [k |-> "set", cs |-> SPACE, neg |-> FALSE], lo |-> 1, hi |-> 1, open |-> TRUE, lazy |-> FALSE], [k |-> "lit", s |-> <<"B","R","A","N","C","H">>]>>], [k |-> "eol"]>>]
        >>, <<
    [k |-> "cat", xs |-> <<[k |-> "lit", s |-> <<"A","/","C">>], [k |-> "rep", x |-> [k |-> "set", cs |-> SPACE, neg |-> FALSE], lo |-> 0, hi |-> 0, open |-> TRUE, lazy |-> FALSE], [k |-> "lit", s |-> <<"N","A","M","E">>], [k |-> "rep", x |-> [k |-> "set", cs |-> SPACE, neg |-> FALSE], lo |-> 0, hi |-> 0, open |-> TRUE, lazy |-> FALSE]>>], [k |-> "cat", xs |-> <<[k |-> "set", cs |-> UPPER, neg |-> FALSE], [k |-> "rep", x |-> [k |-> "set", cs |-> UPPER \cup SPACE \cup {".", "&"}, neg |-> FALSE], lo |-> 1, hi |-> 1, open |-> TRUE, lazy |-> TRUE]>>], [k |-> "alt", xs |-> <<[k |-> "cat", xs |-> <<[k |-> "rep", x |-> [k |-> "set", cs |-> SPACE, neg |-> FALSE], lo |-> 1, hi |-> 1, open |-> TRUE, lazy |-> FALSE], [k |-> "lit", s |-> <<"F","R","O","M">>]>>], [k |-> "cat", xs |-> <<[k |-> "rep", x |-> [k |-> "set", cs |-> SPACE, neg |-> FALSE], lo |-> 1, hi |-> 1, open |-> TRUE, lazy |-> FALSE], [k |-> "lit", s |-> <<"M","I","C","R">>]>>], [k |-> "cat", xs |-> <<[k |-> "rep", x |-> [k |-> "set", cs |-> SPACE, neg |-> FALSE], lo |-> 1, hi |-> 1, open |-> TRUE, lazy |-> FALSE], [k |-> "lit", s |-> <<"T","O">>]>>], [k |-> "cat", xs |-> <<[k |-> "rep", x |-> [k |-> "set", cs |-> SPACE, neg |-> FALSE], lo |-> 1, hi |-> 1, open |-> TRUE, lazy |-> FALSE], [k |-> "lit", s |-> <<"B","R","A","N","C","H">>]>>], [k |-> "eol"]>>]
        >>, <<
    [k |-> "cat", xs |-> <<[k |-> "lit", s |-> <<"A","C","C","O","U","N","T">>], [k |-> "rep", x |-> [k |-> "set", cs |-> SPACE, neg |-> FALSE], lo |-> 0, hi |-> 0, open |-> TRUE, lazy |-> FALSE], [k |-> "lit", s |-> <<"N","A","M","E">>], [k |-> "rep", x |-> [k |-> "set", cs |-> SPACE, neg |-> FALSE], lo |-> 0, hi |-> 0, open |-> TRUE, lazy |-> FALSE]>>], [k |-> "cat", xs |-> <<[k |-> "set", cs |-> UPPER, neg |-> FALSE], [k |-> "rep", x |-> [k |-> "set", cs |-> UPPER \cup SPACE \cup {".", "&"}, neg |-> FALSE], lo |-> 1, hi |-> 1, open |-> TRUE, lazy |-> TRUE]>>], [k |-> "alt", xs |-> <<[k |-> "cat", xs |-> <<[k |-> "rep", x |-> [k |-> "set", cs |-> SPACE, neg |-> FALSE], lo |-> 1, hi |-> 1, open |-> TRUE, lazy |-> FALSE], [k |-> "lit", s |-> <<"F","R","O","M">>]>>], [k |-> "cat", xs |-> <<[k |-> "rep", x |-> [k |-> "set", cs |-> SPACE, neg |-> FALSE], lo |-> 1, hi |-> 1, open |-> TRUE, lazy |-> FALSE], [k |-> "lit", s |-> <<"M","I","C","R">>]>>], [k |-> "cat", xs |-> <<[k |-> "rep", x |-> [k |-> "set", cs |-> SPACE, neg |-> FALSE], lo |-> 1, hi |-> 1, open |-> TRUE, lazy |-> FALSE], [k |-> "lit", s |-> <<"T","O">>]>>], [k |-> "cat", xs |-> <<[k |-> "rep", x |-> [k |-> "set", cs |-> SPACE, neg |-> FALSE], lo |-> 1, hi |-> 1, open |-> TRUE, lazy |-> FALSE], [k |-> "lit", s |-> <<"B","R","A","N","C","H">>]>>], [k |-> "eol"]>>]
        >> >>
    IN
    LET step1Name(match) ==
            IF match = None THEN None ELSE clean_extracted_name(PyStr(match.group1))
    IN  \E p \in 1..Len(name_indicators) :
            step1Name(SearchGroups(name_indicators[p][1], name_indicators[p][2],
                                   name_indicators[p][3], line, TRUE)) # None

\* Step 2, body of the loop for one stripped line
Step2Matches(line) ==
    \* Step 2 patterns: M/S, MESSRS, business entities, personal titles, each
    \* after an optional "YOUR DETAILS WITH US:" prefix
    LET name_prefixes ==
        << <<
    [k |-> "cat", xs |-> <<[k |-> "rep", x |-> [k |-> "cat", xs |-> <<[k |-> "lit", s |-> <<"Y","O","U","R">>], [k |-> "rep", x |-> [k |-> "set", cs |-> SPACE, neg |-> FALSE], lo |-> 1, hi |-> 1, open |-> TRUE, lazy |-> FALSE], [k |-> "lit", s |-> <<"D","E","T","A","I","L">>], [k |-> "rep", x |-> [k |-> "lit", s |-> <<"S">>], lo |-> 0, hi |-> 1, open |-> FALSE, lazy |-> FALSE], [k |-> "rep", x |-> [k |-> "set", cs |-> SPACE, neg |-> FALSE], lo |-> 1, hi |-> 1, open |-> TRUE, lazy |-> FALSE], [k |-> "rep", x |-> [k |-> "cat", xs |-> <<[k |-> "lit", s |-> <<"W","I","T","H">>], [k |-> "rep", x |-> [k |-> "set", cs |-> SPACE, neg |-> FALSE], lo |-> 1, hi |-> 1, open |-> TRUE, lazy |-> FALSE]>>], lo |-> 0, hi |-> 1, open |-> FALSE, lazy |-> FALSE], [k |-> "rep", x |-> [k |-> "alt", xs |-> <<[k |-> "lit", s |-> <<"U","S">>], [k |-> "lit", s |-> <<"A","R","E">>]>>], lo |-> 0, hi |-> 1, open |-> FALSE, lazy |-> FALSE], [k |-> "rep", x |-> [k |-> "set", cs |-> SPACE \cup {":"}, neg |-> FALSE], lo |-> 1, hi |-> 1, open |-> TRUE, lazy |-> FALSE]>>], lo |-> 0, hi |-> 1, open |-> FALSE, lazy |-> FALSE], [k |-> "lit", s |-> <<"M","/","S">>], [k |-> "rep", x |-> [k |-> "lit", s |-> <<".">>], lo |-> 0, hi |-> 1, open |-> FALSE, lazy |-> FALSE], [k |-> "rep", x |-> [k |-> "set", cs |-> SPACE, neg |-> FALSE], lo |-> 1, hi |-> 1, open |-> TRUE, lazy |-> FALSE]>>], [k |-> "cat", xs |-> <<[k |-> "set", cs |-> UPPER, neg |-> FALSE], [k |-> "rep", x |-> [k |-> "set", cs |-> UPPER \cup SPACE \cup {".", "&", ","}, neg |-> FALSE], lo |-> 1, hi |-> 1, open |-> TRUE, lazy |-> TRUE]>>], [k |-> "alt", xs |-> <<[k |-> "cat", xs |-> <<[k |-> "rep", x |-> [k |-> "set", cs |-> SPACE, neg |-> FALSE], lo |-> 1, hi |-> 1, open |-> TRUE, lazy |-> FALSE], [k |-> "lit", s |-> <<"F","R","O","M">>]>>], [k |-> "cat", xs |-> <<[k |-> "rep", x |-> [k |-> "set", cs |-> SPACE, neg |-> FALSE], lo |-> 1, hi |-> 1, open |-> TRUE, lazy |-> FALSE], [k |-> "lit", s |-> <<"M","I","C","R">>]>>], [k |-> "cat", xs |-> <<[k |-> "rep", x |-> [k |-> "set", cs |-> SPACE, neg |-> FALSE], lo |-> 1, hi |-> 1, open |-> TRUE, lazy |-> FALSE], [k |-> "lit", s |-> <<"T","O">>]>>], [k |-> "cat", xs |-> <<[k |-> "rep", x |-> [k |-> "set", cs |-> SPACE, neg |-> FALSE], lo |-> 1, hi |-> 1, open |-> TRUE, lazy |-> FALSE], [k |-> "lit", s |-> <<"B","R","A","N","C","H">>]>>], [k |-> "eol"]>>]
        >>, <<
    [k |-> "cat", xs |-> <<[k |-> "rep", x |-> [k |-> "cat", xs |-> <<[k |-> "lit", s |-> <<"Y","O","U","R">>], [k |-> "rep", x |-> [k |-> "set", cs |-> SPACE, neg |-> FALSE], lo |-> 1, hi |-> 1, open |-> TRUE, lazy |-> FALSE], [k |-> "lit", s |-> <<"D","E","T","A","I","L">>], [k |-> "rep", x |-> [k |-> "lit", s |-> <<"S">>], lo |-> 0, hi |-> 1, open |-> FALSE, lazy |-> FALSE], [k |-> "rep", x |-> [k |-> "set", cs |-> SPACE, neg |-> FALSE], lo |-> 1, hi |-> 1, open |-> TRUE, lazy |-> FALSE], [k |-> "rep", x |-> [k |-> "cat", xs |-> <<[k |-> "lit", s |-> <<"W","I","T","H">>], [k |-> "rep", x |-> [k |-> "set", cs |-> SPACE, neg |-> FALSE], lo |-> 1, hi |-> 1, open |-> TRUE, lazy |-> FALSE]>>], lo |-> 0, hi |-> 1, open |-> FALSE, lazy |-> FALSE], [k |-> "rep", x |-> [k |-> "alt", xs |-> <<[k |-> "lit", s |-> <<"U","S">>], [k |-> "lit", s |-> <<"A","R","E">>]>>], lo |-> 0, hi |-> 1, open |-> FALSE, lazy |-> FALSE], [k |-> "rep", x |-> [k |-> "set", cs |-> SPACE \cup {":"}, neg |-> FALSE], lo |-> 1, hi |-> 1, open |-> TRUE, lazy |-> FALSE]>>], lo |-> 0, hi |-> 1, open |-> FALSE, lazy |-> FALSE], [k |-> "lit", s |-> <<"M","E","S","S","R","S">>], [k |-> "rep", x |-> [k |-> "lit", s |-> <<".">>], lo |-> 0, hi |-> 1, open |-> FALSE, lazy |-> FALSE], [k |-> "rep", x |-> [k |-> "set", cs |-> SPACE, neg |-> FALSE], lo |-> 1, hi |-> 1, open |-> TRUE, lazy |-> FALSE]>>], [k |-> "cat", xs |-> <<[k |-> "set", cs |-> UPPER, neg |-> FALSE], [k |-> "rep", x |-> [k |-> "set", cs |-> UPPER \cup SPACE \cup {".", "&", ","}, neg |-> FALSE], lo |-> 1, hi |-> 1, open |-> TRUE, lazy |-> TRUE]>>], [k |-> "alt", xs |-> <<[k |-> "cat", xs |-> <<[k |-> "rep", x |-> [k |-> "set", cs |-> SPACE, neg |-> FALSE], lo |-> 1, hi |-> 1, open |-> TRUE, lazy |-> FALSE], [k |-> "lit", s |-> <<"F","R","O","M">>]>>], [k |-> "cat", xs |-> <<[k |-> "rep", x |-> [k |-> "set", cs |-> SPACE, neg |-> FALSE], lo |-> 1, hi |-> 1, open |-> TRUE, lazy |-> FALSE], [k |-> "lit", s |-> <<"M","I","C","R">>]>>], [k |-> "cat", xs |-> <<[k |-> "rep", x |-> [k |-> "set", cs |-> SPACE, neg |-> FALSE], lo |-> 1, hi |-> 1, open |-> TRUE, lazy |-> FALSE], [k |-> "lit", s |-> <<"T","O">>]>>], [k |-> "cat", xs |-> <<[k |-> "rep", x |-> [k |-> "set", cs |-> SPACE, neg |-> FALSE], lo |-> 1, hi |-> 1, open |-> TRUE, lazy |-> FALSE], [k |-> "lit", s |-> <<"B","R","A","N","C","H">>]>>], [k |-> "eol"]>>]
        >>, <<
    [k |-> "rep", x |-> [k |-> "cat", xs |-> <<[k |-> "lit", s |-> <<"Y","O","U","R">>], [k |-> "rep", x |-> [k |-> "set", cs |-> SPACE, neg |-> FALSE], lo |-> 1, hi |-> 1, open |-> TRUE, lazy |-> FALSE], [k |-> "lit", s |-> <<"D","E","T","A","I","L">>], [k |-> "rep", x |-> [k |-> "lit", s |-> <<"S">>], lo |-> 0, hi |-> 1, open |-> FALSE, lazy |-> FALSE], [k |-> "rep", x |-> [k |-> "set", cs |-> SPACE, neg |-> FALSE], lo |-> 1, hi |-> 1, open |-> TRUE, lazy |-> FALSE], [k |-> "rep", x |-> [k |-> "cat", xs |-> <<[k |-> "lit", s |-> <<"W","I","T","H">>], [k |-> "rep", x |-> [k |-> "set", cs |-> SPACE, neg |-> FALSE], lo |-> 1, hi |-> 1, open |-> TRUE, lazy |-> FALSE]>>], lo |-> 0, hi |-> 1, open |-> FALSE, lazy |-> FALSE], [k |-> "rep", x |-> [k |-> "alt", xs |-> <<[k |-> "lit", s |-> <<"U","S">>], [k |-> "lit", s |-> <<"A","R","E">>]>>], lo |-> 0, hi |-> 1, open |-> FALSE, lazy |-> FALSE], [k |-> "rep", x |-> [k |-> "set", cs |-> SPACE \cup {":"}, neg |-> FALSE], lo |-> 1, hi |-> 1, open |-> TRUE, lazy |-> FALSE]>>], lo |-> 0, hi |-> 1, open |-> FALSE, lazy |-> FALSE], [k |-> "cat", xs |-> <<[k |-> "set", cs |-> UPPER, neg |-> FALSE], [k |-> "rep", x |-> [k |-> "set", cs |-> UPPER \cup SPACE \cup {".", "&", ","}, neg |-> FALSE], lo |-> 1, hi |-> 1, open |-> TRUE, lazy |-> TRUE], [k |-> "rep", x |-> [k |-> "set", cs |-> SPACE, neg |-> FALSE], lo |-> 1, hi |-> 1, open |-> TRUE, lazy |-> FALSE], [k |-> "alt", xs |-> <<[k |-> "lit", s |-> <<"E","N","T","E","R","P","R","I","S","E">>], [k |-> "lit", s |-> <<"T","R","A","D","I","N","G">>], [k |-> "lit", s |-> <<"C","O","R","P","O","R","A","T","I","O","N">>], [k |-> "lit", s |-> <<"I","N","D","U","S","T","R","I","E","S">>]>>]>>], [k |-> "alt", xs |-> <<[k |-> "cat", xs |-> <<[k |-> "rep", x |-> [k |-> "set", cs |-> SPACE, neg |-> FALSE], lo |-> 1, hi |-> 1, open |-> TRUE, lazy |-> FALSE], [k |-> "lit", s |-> <<"F","R","O","M">>]>>], [k |-> "cat", xs |-> <<[k |-> "rep", x |-> [k |-> "set", cs |-> SPACE, neg |-> FALSE], lo |-> 1, hi |-> 1, open |-> TRUE, lazy |-> FALSE], [k |-> "lit", s |-> <<"M","I","C","R">>]>>], [k |-> "cat", xs |-> <<[k |-> "rep", x |-> [k |-> "set", cs |-> SPACE, neg |-> FALSE], lo |-> 1, hi |-> 1, open |-> TRUE, lazy |-> FALSE], [k |-> "lit", s |-> <<"T","O">>]>>], [k |-> "cat", xs |-> <<[k |-> "rep", x |-> [k |-> "set", cs |-> SPACE, neg |-> FALSE], lo |-> 1, hi |-> 1, open |-> TRUE, lazy |-> FALSE], [k |-> "lit", s |-> <<"B","R","A","N","C","H">>]>>], [k |-> "eol"]>>]
        >>, <<
    [k |-> "cat", xs |-> <<[k |-> "rep", x |-> [k |-> "cat", xs |-> <<[k |-> "lit", s |-> <<"Y","O","U","R">>], [k |-> "rep", x |-> [k |-> "set", cs |-> SPACE, neg |-> FALSE], lo |-> 1, hi |-> 1, open |-> TRUE, lazy |-> FALSE], [k |-> "lit", s |-> <<"D","E","T","A","I","L">>], [k |-> "rep", x |-> [k |-> "lit", s |-> <<"S">>], lo |-> 0, hi |-> 1, open |-> FALSE, lazy |-> FALSE], [k |-> "rep", x |-> [k |-> "set", cs |-> SPACE, neg |-> FALSE], lo |-> 1, hi |-> 1, open |-> TRUE, lazy |-> FALSE], [k |-> "rep", x |-> [k |-> "cat", xs |-> <<[k |-> "lit", s |-> <<"W","I","T","H">>], [k |-> "rep", x |-> [k |-> "set", cs |-> SPACE, neg |-> FALSE], lo |-> 1, hi |-> 1, open |-> TRUE, lazy |-> FALSE]>>], lo |-> 0, hi |-> 1, open |-> FALSE, lazy |-> FALSE], [k |-> "rep", x |-> [k |-> "alt", xs |-> <<[k |-> "lit", s |-> <<"U","S">>], [k |-> "lit", s |-> <<"A","R","E">>]>>], lo |-> 0, hi |-> 1, open |-> FALSE, lazy |-> FALSE], [k |-> "rep", x |-> [k |-> "set", cs |-> SPACE \cup {":"}, neg |-> FALSE], lo |-> 1, hi |-> 1, open |-> TRUE, lazy |-> FALSE]>>], lo |-> 0, hi |-> 1, open |-> FALSE, lazy |-> FALSE], [k |-> "alt", xs |-> <<[k |-> "lit", s |-> <<"M","R">>], [k |-> "lit", s |-> <<"M","R","S">>], [k |-> "lit", s |-> <<"M","S">>], [k |-> "lit", s |-> <<"M","I","S","S">>], [k |-> "lit", s |-> <<"D","R">>], [k |-> "lit", s |-> <<"S","H","R","I">>], [k |-> "lit", s |-> <<"S","M","T">>], [k |-> "lit", s |-> <<"K","U","M">>]>>], [k |-> "rep", x |-> [k |-> "lit", s |-> <<".">>], lo |-> 0, hi |-> 1, open |-> FALSE, lazy |-> FALSE], [k |-> "rep", x |-> [k |-> "set", cs |-> SPACE, neg |-> FALSE], lo |-> 1, hi |-> 1, open |-> TRUE, lazy |-> FALSE]>>], [k |-> "cat", xs |-> <<[k |-> "set", cs |-> UPPER, neg |-> FALSE], [k |-> "rep", x |-> [k |-> "set", cs |-> UPPER \cup SPACE \cup {".", "&", ","}, neg |-> FALSE], lo |-> 1, hi |-> 1, open |-> TRUE, lazy |-> TRUE]>>], [k |-> "alt", xs |-> <<[k |-> "cat", xs |-> <<[k |-> "rep", x |-> [k |-> "set", cs |-> SPACE, neg |-> FALSE], lo |-> 1, hi |-> 1, open |-> TRUE, lazy |-> FALSE], [k |-> "lit", s |-> <<"F","R","O","M">>]>>], [k |-> "cat", xs |-> <<[k |-> "rep", x |-> [k |-> "set", cs |-> SPACE, neg |-> FALSE], lo |-> 1, hi |-> 1, open |-> TRUE, lazy |-> FALSE], [k |-> "lit", s |-> <<"M","I","C","R">>]>>], [k |-> "cat", xs |-> <<[k |-> "rep", x |-> [k |-> "set", cs |-> SPACE, neg |-> FALSE], lo |-> 1, hi |-> 1, open |-> TRUE, lazy |-> FALSE], [k |-> "lit", s |-> <<"T","O">>]>>], [k |-> "cat", xs |-> <<[k |-> "rep", x |-> [k |-> "set", cs |-> SPACE, neg |-> FALSE], lo |-> 1, hi |-> 1, open |-> TRUE, lazy |-> FALSE], [k |-> "lit", s |-> <<"B","R","A","N","C","H">>]>>], [k |-> "eol"]>>]
        >> >>
    IN
    LET business_words ==
            << <<"M","/","S">>, <<"E","N","T","E","R","P","R","I","S","E">>, <<"T","R","A","D","I","N","G">>, <<"C","O","R","P","O","R","A","T","I","O","N">>, <<"I","N","D","U","S","T","R","I","E","S">> >>
        \* "if 'M/S' in full_match.upper() or any(word in full_match.upper() ...)"
        isBusiness(full_match) ==
            \E w \in 1..Len(business_words) :
                Contains(upper(full_match), business_words[w])
        step2Name(match) ==
            IF match = None THEN None
            ELSE clean_extracted_name(PyStr(IF isBusiness(match.group0)
                                            THEN match.group0 ELSE match.group1))
    IN  \E p \in 1..Len(name_prefixes) :
            step2Name(SearchGroups(name_prefixes[p][1], name_prefixes[p][2],
                                   name_prefixes[p][3], line, TRUE)) # None

\* "if not line or is_branch_line(i, cleaned_lines): continue"
SkippedLine(k, ls) == strip(ls[k]) = <<>> \/ is_branch_line(k, ls)

\* find_name_line: the stripped line returned, or None when both loops end
\* without a return
find_name_line(cleaned_lines) ==
    LET \* hit1, hit2: the first line at which Step 1, Step 2 returns (0: none)
        returnedLine(hit1, hit2) ==
            IF hit1 # 0 THEN PyStr(strip(cleaned_lines[hit1]))
            ELSE IF hit2 # 0 THEN PyStr(strip(cleaned_lines[hit2]))
            ELSE None
    IN  returnedLine(
            FirstTrue([k \in 1..Len(cleaned_lines) |->
                ~SkippedLine(k, cleaned_lines)
                /\ Step1Matches(strip(cleaned_lines[k]))] \o <<>>),
            FirstTrue([k \in 1..Len(cleaned_lines) |->
                ~SkippedLine(k, cleaned_lines)
                /\ Step2Matches(strip(cleaned_lines[k]))] \o <<>>))

\* line is a Python value
extract_name_from_line(line) ==
    \* extract_name_from_line.name_patterns
    LET name_patterns ==
        << <<
    [k |-> "cat", xs |-> <<[k |-> "rep", x |-> [k |-> "alt", xs |-> <<[k |-> "lit", s |-> <<"C","U","S","T","O","M","E","R">>], [k |-> "lit", s |-> <<"A","C","C","O","U","N","T">>]>>], lo |-> 0, hi |-> 1, open |-> FALSE, lazy |-> FALSE], [k |-> "rep", x |-> [k |-> "set", cs |-> SPACE, neg |-> FALSE], lo |-> 0, hi |-> 0, open |-> TRUE, lazy |-> FALSE], [k |-> "lit", s |-> <<"N","A","M","E">>], [k |-> "rep", x |-> [k |-> "set", cs |-> SPACE, neg |-> FALSE], lo |-> 0, hi |-> 0, open |-> TRUE, lazy |-> FALSE], [k |-> "rep", x |-> [k |-> "set", cs |-> {":", ".", " ", "-"}, neg |-> FALSE], lo |-> 0, hi |-> 1, open |-> FALSE, lazy |-> FALSE], [k |-> "rep", x |-> [k |-> "set", cs |-> SPACE, neg |-> FALSE], lo |-> 0, hi |-> 0, open |-> TRUE, lazy |-> FALSE]>>], [k |-> "rep", x |-> [k |-> "cat", xs |-> <<[k |-> "set", cs |-> UPPER, neg |-> FALSE], [k |-> "rep", x |-> [k |-> "set", cs |-> UPPER \cup LOWER \cup SPACE \cup {".", "&"}, neg |-> FALSE], lo |-> 1, hi |-> 1, open |-> TRUE, lazy |-> FALSE]>>], lo |-> 1, hi |-> 6, open |-> FALSE, lazy |-> FALSE], [k |-> "cat", xs |-> <<>>]
        >>, <<
    [k |-> "cat", xs |-> <<[k |-> "alt", xs |-> <<[k |-> "lit", s |-> <<"M","R">>], [k |-> "lit", s |-> <<"M","R","S">>], [k |-> "lit", s |-> <<"M","S">>], [k |-> "lit", s |-> <<"M","I","S","S">>], [k |-> "lit", s |-> <<"D","R">>], [k |-> "lit", s |-> <<"S","H","R","I">>], [k |-> "lit", s |-> <<"S","M","T">>]>>], [k |-> "rep", x |-> [k |-> "lit", s |-> <<".">>], lo |-> 0, hi |-> 1, open |-> FALSE, lazy |-> FALSE], [k |-> "rep", x |-> [k |-> "set", cs |-> SPACE, neg |-> FALSE], lo |-> 1, hi |-> 1, open |-> TRUE, lazy |-> FALSE]>>], [k |-> "rep", x |-> [k |-> "cat", xs |-> <<[k |-> "set", cs |-> UPPER, neg |-> FALSE], [k |-> "rep", x |-> [k |-> "set", cs |-> UPPER \cup LOWER \cup SPACE \cup {".", "&"}, neg |-> FALSE], lo |-> 1, hi |-> 1, open |-> TRUE, lazy |-> FALSE]>>], lo |-> 1, hi |-> 6, open |-> FALSE, lazy |-> FALSE], [k |-> "cat", xs |-> <<>>]
        >>, <<
    [k |-> "cat", xs |-> <<[k |-> "lit", s |-> <<"M","/","S">>], [k |-> "rep", x |-> [k |-> "lit", s |-> <<".">>], lo |-> 0, hi |-> 1, open |-> FALSE, lazy |-> FALSE], [k |-> "rep", x |-> [k |-> "set", cs |-> SPACE, neg |-> FALSE], lo |-> 1, hi |-> 1, open |-> TRUE, lazy |-> FALSE]>>], [k |-> "rep", x |-> [k |-> "cat", xs |-> <<[k |-> "set", cs |-> UPPER, neg |-> FALSE], [k |-> "rep", x |-> [k |-> "set", cs |-> UPPER \cup LOWER \cup SPACE \cup {".", "&"}, neg |-> FALSE], lo |-> 1, hi |-> 1, open |-> TRUE, lazy |-> FALSE]>>], lo |-> 1, hi |-> 6, open |-> FALSE, lazy |-> FALSE], [k |-> "cat", xs |-> <<>>]
        >>, <<
    [k |-> "cat", xs |-> <<>>], [k |-> "cat", xs |-> <<[k |-> "set", cs |-> UPPER, neg |-> FALSE], [k |-> "rep", x |-> [k |-> "set", cs |-> UPPER \cup LOWER \cup SPACE \cup {".", "&"}, neg |-> FALSE], lo |-> 1, hi |-> 1, open |-> TRUE, lazy |-> FALSE], [k |-> "rep", x |-> [k |-> "set", cs |-> SPACE, neg |-> FALSE], lo |-> 1, hi |-> 1, open |-> TRUE, lazy |-> FALSE], [k |-> "lit", s |-> <<"E","N","T","E","R","P","R","I","S","E">>]>>], [k |-> "cat", xs |-> <<>>]
        >>, <<
    [k |-> "alt", xs |-> <<[k |-> "bol"], [k |-> "set", cs |-> SPACE, neg |-> FALSE]>>], [k |-> "cat", xs |-> <<[k |-> "rep", x |-> [k |-> "cat", xs |-> <<[k |-> "set", cs |-> UPPER, neg |-> FALSE], [k |-> "rep", x |-> [k |-> "set", cs |-> UPPER \cup LOWER, neg |-> FALSE], lo |-> 1, hi |-> 1, open |-> TRUE, lazy |-> FALSE], [k |-> "rep", x |-> [k |-> "set", cs |-> SPACE, neg |-> FALSE], lo |-> 1, hi |-> 1, open |-> TRUE, lazy |-> FALSE]>>], lo |-> 1, hi |-> 3, open |-> FALSE, lazy |-> FALSE], [k |-> "alt", xs |-> <<[k |-> "lit", s |-> <<"K","U","M","A","R">>], [k |-> "lit", s |-> <<"L","A","L">>], [k |-> "lit", s |-> <<"C","H","A","N","D">>], [k |-> "lit", s |-> <<"R","A","J">>], [k |-> "lit", s |-> <<"D","E","V","I">>], [k |-> "lit", s |-> <<"B","A","I">>], [k |-> "lit", s |-> <<"S","I","N","G","H">>], [k |-> "lit", s |-> <<"K","A","U","R">>]>>]>>], [k |-> "cat", xs |-> <<>>]
        >>, <<
    [k |-> "alt", xs |-> <<[k |-> "bol"], [k |-> "set", cs |-> SPACE, neg |-> FALSE]>>], [k |-> "cat", xs |-> <<[k |-> "rep", x |-> [k |-> "cat", xs |-> <<[k |-> "set", cs |-> UPPER, neg |-> FALSE], [k |-> "rep", x |-> [k |-> "set", cs |-> UPPER \cup LOWER, neg |-> FALSE], lo |-> 1, hi |-> 1, open |-> TRUE, lazy |-> FALSE], [k |-> "rep", x |-> [k |-> "set", cs |-> SPACE, neg |-> FALSE], lo |-> 1, hi |-> 1, open |-> TRUE, lazy |-> FALSE]>>], lo |-> 1, hi |-> 5, open |-> FALSE, lazy |-> FALSE], [k |-> "set", cs |-> UPPER, neg |-> FALSE], [k |-> "rep", x |-> [k |-> "set", cs |-> UPPER \cup LOWER, neg |-> FALSE], lo |-> 1, hi |-> 1, open |-> TRUE, lazy |-> FALSE]>>], [k |-> "alt", xs |-> <<[k |-> "set", cs |-> SPACE, neg |-> FALSE], [k |-> "eol"]>>]
        >> >>
    IN
    LET \* the re.sub calls, in order
        extract_name_subs == <<
    [k |-> "cat", xs |-> <<[k |-> "lit", s |-> <<"F","R","O","M">>], [k |-> "rep", x |-> [k |-> "set", cs |-> SPACE, neg |-> FALSE], lo |-> 1, hi |-> 1, open |-> TRUE, lazy |-> FALSE], [k |-> "lit", s |-> <<"D","A","T","E">>], [k |-> "rep", x |-> [k |-> "set", cs |-> {"\n"}, neg |-> TRUE], lo |-> 0, hi |-> 0, open |-> TRUE, lazy |-> FALSE]>>]
    ,
    [k |-> "cat", xs |-> <<[k |-> "lit", s |-> <<"T","O">>], [k |-> "rep", x |-> [k |-> "set", cs |-> SPACE, neg |-> FALSE], lo |-> 1, hi |-> 1, open |-> TRUE, lazy |-> FALSE], [k |-> "lit", s |-> <<"D","A","T","E">>], [k |-> "rep", x |-> [k |-> "set", cs |-> {"\n"}, neg |-> TRUE], lo |-> 0, hi |-> 0, open |-> TRUE, lazy |-> FALSE]>>]
    ,
    [k |-> "cat", xs |-> <<[k |-> "lit", s |-> <<"B","R","A","N","C","H">>], [k |-> "rep", x |-> [k |-> "set", cs |-> {"\n"}, neg |-> TRUE], lo |-> 0, hi |-> 0, open |-> TRUE, lazy |-> FALSE]>>]
    ,
    [k |-> "cat", xs |-> <<[k |-> "lit", s |-> <<"U","M","F","B">>], [k |-> "rep", x |-> [k |-> "set", cs |-> {"\n"}, neg |-> TRUE], lo |-> 0, hi |-> 0, open |-> TRUE, lazy |-> FALSE]>>]
    ,
    [k |-> "cat", xs |-> <<[k |-> "lit", s |-> <<"A","N","K","L","E","S","H","W","A","R">>], [k |-> "rep", x |-> [k |-> "set", cs |-> {"\n"}, neg |-> TRUE], lo |-> 0, hi |-> 0, open |-> TRUE, lazy |-> FALSE]>>]
    ,
    [k |-> "cat", xs |-> <<[k |-> "lit", s |-> <<"M","I","C","R">>], [k |-> "rep", x |-> [k |-> "set", cs |-> {"\n"}, neg |-> TRUE], lo |-> 0, hi |-> 0, open |-> TRUE, lazy |-> FALSE]>>]
        >>
        invalid_name_words == { <<"B","R","A","N","C","H">>, <<"B","A","N","K">>, <<"S","T","A","T","E","M","E","N","T">>, <<"U","M","F","B">> }
        \* "if (2 <= len(words) <= 6 and not any(...) and all(...)): return name"
        checked(name, words) ==
            IF /\ 2 <= Len(words) /\ Len(words) <= 6
               /\ \A w \in 1..Len(words) : words[w] \notin invalid_name_words
               /\ \A w \in 1..Len(words) : Len(words[w]) >= 2
            THEN PyStr(name)
            ELSE None
        checkedName(name) == checked(name, split(name))
        \* match is match.group(1) as a Python value, or None
        nameOfMatch(match) ==
            IF match = None THEN None
            ELSE checkedName(SubAll(extract_name_subs, 1, strip(match.v), TRUE))
        \* the name got from one pattern, or None
        nameFromPattern(p, line_upper) ==
            nameOfMatch(SearchGroup(name_patterns[p][1], name_patterns[p][2],
                                    name_patterns[p][3], line_upper, FALSE))
        \* the first name in names that is not None, or None
        pick(names, first) == IF first = 0 THEN None ELSE names[first]
        firstName(names) ==
            pick(names, FirstTrue([p \in 1..Len(names) |-> names[p] # None] \o <<>>))
    IN  IF ~Truthy(line) THEN None
        ELSE firstName([p \in 1..Len(name_patterns) |->
                           nameFromPattern(p, upper(line.v))] \o <<>>)

\* "cleaned = re.sub(r'[^\w\s.-:]', ' ', line).strip(); if cleaned: ...";
\* the pattern is every character that is not a word character, not white
\* space and not in the range '.' to ':'
CleanedLines(raw_lines) ==
    LET special_characters ==
    [k |-> "set", cs |-> WORDCH \cup SPACE \cup {".", "/", "0", "1", "2", "3", "4", "5", "6", "7", "8", "9", ":"}, neg |-> TRUE]
    IN  SelectSeq([k \in 1..Len(raw_lines) |->
                      strip(Sub(special_characters, <<" ">>, raw_lines[k], FALSE))] \o <<>>,
                  LAMBDA l : l # <<>>)

\* filter_header_data after the cleaning of the lines
FilterLines(cleaned_lines) ==
    LET \* acc[k] is what extract_account_number returns for line k, found the
        \* first k with a truthy acc[k], found_line what find_name_line returns
        result(acc, found, found_line) ==
            [account_number |-> IF found = 0 THEN None ELSE acc[found],
             customer_name |-> IF Truthy(found_line)
                               THEN extract_name_from_line(found_line) ELSE None,
             account_line |-> IF found = 0 THEN None ELSE PyStr(cleaned_lines[found]),
             name_line |-> found_line,
             cleaned_content |-> PyStr(JoinWith(<<"\n">>, cleaned_lines))]
        filterResult(acc, found_line) ==
            result(acc, FirstTrue([k \in 1..Len(acc) |-> Truthy(acc[k])] \o <<>>),
                   found_line)
    IN  filterResult([k \in 1..Len(cleaned_lines) |->
                         extract_account_number(cleaned_lines[k])] \o <<>>,
                     find_name_line(cleaned_lines))

\* raw_content is a Python value
filter_header_data(raw_content) ==
    IF ~Truthy(raw_content)
    THEN [account_number |-> None, customer_name |-> None, account_line |-> None,
          name_line |-> None, cleaned_content |-> None]
    ELSE FilterLines(CleanedLines(SplitOn(raw_content.v, "\n")))

(***************************************************************************)
(* pdf_header_extractor_v2.py                                              *)
(***************************************************************************)
\* the loop over the lines with the list of transaction patterns: the
\* index, from 1, of the first line that a pattern is found in, 0 when there
\* is none
transaction_table_start(ls) ==
    LET transaction_patterns ==
        <<
    [k |-> "cat", xs |-> <<[k |-> "bol"], [k |-> "rep", x |-> [k |-> "set", cs |-> DIGIT, neg |-> FALSE], lo |-> 2, hi |-> 2, open |-> FALSE, lazy |-> FALSE], [k |-> "set", cs |-> {"-", "/"}, neg |-> FALSE], [k |-> "rep", x |-> [k |-> "set", cs |-> DIGIT, neg |-> FALSE], lo |-> 2, hi |-> 2, open |-> FALSE, lazy |-> FALSE], [k |-> "set", cs |-> {"-", "/"}, neg |-> FALSE], [k |-> "rep", x |-> [k |-> "set", cs |-> DIGIT, neg |-> FALSE], lo |-> 2, hi |-> 4, open |-> FALSE, lazy |-> FALSE], [k |-> "rep", x |-> [k |-> "set", cs |-> SPACE, neg |-> FALSE], lo |-> 1, hi |-> 1, open |-> TRUE, lazy |-> FALSE], [k |-> "rep", x |-> [k |-> "set", cs |-> DIGIT, neg |-> FALSE], lo |-> 2, hi |-> 2, open |-> FALSE, lazy |-> FALSE], [k |-> "set", cs |-> {"-", "/"}, neg |-> FALSE], [k |-> "rep", x |-> [k |-> "set", cs |-> DIGIT, neg |-> FALSE], lo |-> 2, hi |-> 2, open |-> FALSE, lazy |-> FALSE], [k |-> "set", cs |-> {"-", "/"}, neg |-> FALSE], [k |-> "rep", x |-> [k |-> "set", cs |-> DIGIT, neg |-> FALSE], lo |-> 2, hi |-> 4, open |-> FALSE, lazy |-> FALSE], [k |-> "rep", x |-> [k |-> "set", cs |-> SPACE, neg |-> FALSE], lo |-> 1, hi |-> 1, open |-> TRUE, lazy |-> FALSE]>>]
        ,
    [k |-> "cat", xs |-> <<[k |-> "bol"], [k |-> "rep", x |-> [k |-> "set", cs |-> DIGIT, neg |-> FALSE], lo |-> 2, hi |-> 2, open |-> FALSE, lazy |-> FALSE], [k |-> "set", cs |-> {"-", "/"}, neg |-> FALSE], [k |-> "rep", x |-> [k |-> "set", cs |-> DIGIT, neg |-> FALSE], lo |-> 2, hi |-> 2, open |-> FALSE, lazy |-> FALSE], [k |-> "set", cs |-> {"-", "/"}, neg |-> FALSE], [k |-> "rep", x |-> [k |-> "set", cs |-> DIGIT, neg |-> FALSE], lo |-> 2, hi |-> 4, open |-> FALSE, lazy |-> FALSE], [k |-> "rep", x |-> [k |-> "set", cs |-> SPACE, neg |-> FALSE], lo |-> 1, hi |-> 1, open |-> TRUE, lazy |-> FALSE], [k |-> "rep", x |-> [k |-> "set", cs |-> UPPER, neg |-> FALSE], lo |-> 1, hi |-> 1, open |-> TRUE, lazy |-> FALSE]>>]
        ,
    [k |-> "cat", xs |-> <<[k |-> "bol"], [k |-> "alt", xs |-> <<[k |-> "cat", xs |-> <<[k |-> "lit", s |-> <<"D","a","t","e">>], [k |-> "rep", x |-> [k |-> "set", cs |-> SPACE, neg |-> FALSE], lo |-> 1, hi |-> 1, open |-> TRUE, lazy |-> FALSE], [k |-> "lit", s |-> <<"N","a","r","r","a","t","i","o","n">>]>>], [k |-> "cat", xs |-> <<[k |-> "lit", s |-> <<"D","a","t","e">>], [k |-> "rep", x |-> [k |-> "set", cs |-> SPACE, neg |-> FALSE], lo |-> 1, hi |-> 1, open |-> TRUE, lazy |-> FALSE], [k |-> "lit", s |-> <<"P","a","r","t","i","c","u","l","a","r","s">>]>>], [k |-> "cat", xs |-> <<[k |-> "lit", s |-> <<"D","a","t","e">>], [k |-> "rep", x |-> [k |-> "set", cs |-> SPACE, neg |-> FALSE], lo |-> 1, hi |-> 1, open |-> TRUE, lazy |-> FALSE], [k |-> "lit", s |-> <<"D","e","s","c","r","i","p","t","i","o","n">>]>>], [k |-> "lit", s |-> <<"T","r","a","n"," ","D","a","t","e">>], [k |-> "lit", s |-> <<"T","r","a","n","s"," ","D","a","t","e">>]>>]>>]
        ,
    [k |-> "cat", xs |-> <<[k |-> "bol"], [k |-> "lit", s |-> <<"S","l">>], [k |-> "rep", x |-> [k |-> "lit", s |-> <<".">>], lo |-> 0, hi |-> 1, open |-> FALSE, lazy |-> FALSE], [k |-> "rep", x |-> [k |-> "set", cs |-> SPACE, neg |-> FALSE], lo |-> 0, hi |-> 0, open |-> TRUE, lazy |-> FALSE], [k |-> "lit", s |-> <<"N","o">>], [k |-> "rep", x |-> [k |-> "lit", s |-> <<".">>], lo |-> 0, hi |-> 1, open |-> FALSE, lazy |-> FALSE], [k |-> "rep", x |-> [k |-> "set", cs |-> SPACE, neg |-> FALSE], lo |-> 0, hi |-> 0, open |-> TRUE, lazy |-> FALSE], [k |-> "lit", s |-> <<"D","a","t","e">>]>>]
        ,
    [k |-> "cat", xs |-> <<[k |-> "bol"], [k |-> "lit", s |-> <<"O","P","E","N","I","N","G">>], [k |-> "rep", x |-> [k |-> "set", cs |-> SPACE, neg |-> FALSE], lo |-> 1, hi |-> 1, open |-> TRUE, lazy |-> FALSE], [k |-> "lit", s |-> <<"B","A","L","A","N","C","E">>]>>]
        ,
    [k |-> "cat", xs |-> <<[k |-> "bol"], [k |-> "lit", s |-> <<"B","a","l","a","n","c","e">>], [k |-> "rep", x |-> [k |-> "set", cs |-> SPACE, neg |-> FALSE], lo |-> 1, hi |-> 1, open |-> TRUE, lazy |-> FALSE], [k |-> "lit", s |-> <<"B","r","o","u","g","h","t">>], [k |-> "rep", x |-> [k |-> "set", cs |-> SPACE, neg |-> FALSE], lo |-> 1, hi |-> 1, open |-> TRUE, lazy |-> FALSE], [k |-> "lit", s |-> <<"F","o","r","w","a","r","d">>]>>]
        ,
    [k |-> "cat", xs |-> <<[k |-> "lit", s |-> <<"D","e","s","c","r","i","p","t","i","o","n">>], [k |-> "rep", x |-> [k |-> "set", cs |-> SPACE, neg |-> FALSE], lo |-> 1, hi |-> 1, open |-> TRUE, lazy |-> FALSE], [k |-> "lit", s |-> <<"W","i","t","h","d","r","a","w","a","l">>], [k |-> "rep", x |-> [k |-> "set", cs |-> SPACE, neg |-> FALSE], lo |-> 1, hi |-> 1, open |-> TRUE, lazy |-> FALSE], [k |-> "lit", s |-> <<"D","e","p","o","s","i","t">>]>>]
        ,
    [k |-> "cat", xs |-> <<[k |-> "lit", s |-> <<"D","e","b","i","t">>], [k |-> "rep", x |-> [k |-> "set", cs |-> SPACE, neg |-> FALSE], lo |-> 1, hi |-> 1, open |-> TRUE, lazy |-> FALSE], [k |-> "lit", s |-> <<"C","r","e","d","i","t">>], [k |-> "rep", x |-> [k |-> "set", cs |-> SPACE, neg |-> FALSE], lo |-> 1, hi |-> 1, open |-> TRUE, lazy |-> FALSE], [k |-> "lit", s |-> <<"B","a","l","a","n","c","e">>]>>]
        ,
    [k |-> "cat", xs |-> <<[k |-> "lit", s |-> <<"C","h","q">>], [k |-> "rep", x |-> [k |-> "lit", s |-> <<".">>], lo |-> 0, hi |-> 1, open |-> FALSE, lazy |-> FALSE], [k |-> "lit", s |-> <<"/","R","e","f">>], [k |-> "rep", x |-> [k |-> "lit", s |-> <<".">>], lo |-> 0, hi |-> 1, open |-> FALSE, lazy |-> FALSE], [k |-> "rep", x |-> [k |-> "set", cs |-> SPACE, neg |-> FALSE], lo |-> 0, hi |-> 0, open |-> TRUE, lazy |-> FALSE], [k |-> "lit", s |-> <<"N","o",".">>]>>]
        ,
    [k |-> "cat", xs |-> <<[k |-> "lit", s |-> <<"W","i","t","h","d","r","a","w","a","l">>], [k |-> "rep", x |-> [k |-> "lit", s |-> <<"s">>], lo |-> 0, hi |-> 1, open |-> FALSE, lazy |-> FALSE], [k |-> "rep", x |-> [k |-> "set", cs |-> SPACE, neg |-> FALSE], lo |-> 1, hi |-> 1, open |-> TRUE, lazy |-> FALSE], [k |-> "lit", s |-> <<"D","e","p","o","s","i","t">>], [k |-> "rep", x |-> [k |-> "lit", s |-> <<"s">>], lo |-> 0, hi |-> 1, open |-> FALSE, lazy |-> FALSE]>>]
        ,
    [k |-> "cat", xs |-> <<[k |-> "bol"], [k |-> "lit", s |-> <<"S","r",".">>], [k |-> "rep", x |-> [k |-> "set", cs |-> SPACE, neg |-> FALSE], lo |-> 0, hi |-> 0, open |-> TRUE, lazy |-> FALSE], [k |-> "lit", s |-> <<"N","o",".">>]>>]
        ,
    [k |-> "cat", xs |-> <<[k |-> "bol"], [k |-> "lit", s |-> <<"P","a","r","t","i","c","u","l","a","r","s">>], [k |-> "rep", x |-> [k |-> "set", cs |-> SPACE, neg |-> FALSE], lo |-> 1, hi |-> 1, open |-> TRUE, lazy |-> FALSE], [k |-> "lit", s |-> <<"A","m","o","u","n","t">>]>>]
        ,
    [k |-> "cat", xs |-> <<[k |-> "lit", s |-> <<"V","a","l","u","e">>], [k |-> "rep", x |-> [k |-> "set", cs |-> SPACE, neg |-> FALSE], lo |-> 1, hi |-> 1, open |-> TRUE, lazy |-> FALSE], [k |-> "lit", s |-> <<"D","t">>], [k |-> "rep", x |-> [k |-> "set", cs |-> SPACE, neg |-> FALSE], lo |-> 1, hi |-> 1, open |-> TRUE, lazy |-> FALSE], [k |-> "lit", s |-> <<"W","i","t","h","d","r","a","w","a","l">>]>>]
        >>
    IN
    FirstTrue([k \in 1..Len(ls) |->
                  \E p \in 1..Len(transaction_patterns) :
                      Found(transaction_patterns[p], ls[k], TRUE)] \o <<>>)

\* a mutation of extract_header_content: without "if not header_content"
extract_header_content_joins_no_lines(pdf) ==
    LET strippedLines(parts) ==
            SelectSeq([k \in 1..Len(parts) |-> strip(parts[k])] \o <<>>,
                      LAMBDA l : l # <<>>)
        \* ls are the stripped non-empty lines; table_start is the index from
        \* 1 of the first line that a transaction pattern matches, 0 when
        \* there is none
        headerBefore(ls, table_start) ==
            IF table_start = 0 THEN PyStr(JoinWith(<<"\n">>, ls))
            ELSE PyStr(JoinWith(<<"\n">>, SubSeq(ls, 1, table_start - 1)))
        headerOfLines(ls) == headerBefore(ls, transaction_table_start(ls))
    IN  IF pdf.fault = "reader"
        THEN PyStr(<<"E","r","r","o","r"," ","p","r","o","c","e","s","s","i","n","g"," ","P","D","F",":"," ">> \o pdf.message)
        ELSE IF ~Truthy(pdf.text) THEN PyStr(<<"N","o"," ","t","e","x","t"," ","f","o","u","n","d"," ","i","n"," ","P","D","F">>)
        ELSE headerOfLines(strippedLines(SplitOn(pdf.text.v, "\n")))

\* pdf is what the file gives when read: pdf.fault = "reader" when PdfReader
\* or the page access raises (with message pdf.message), and pdf.text is what
\* first_page.extract_text() returns otherwise
extract_header_content(pdf) ==
    LET strippedLines(parts) ==
            SelectSeq([k \in 1..Len(parts) |-> strip(parts[k])] \o <<>>,
                      LAMBDA l : l # <<>>)
        \* ls are the stripped non-empty lines; table_start is the index from
        \* 1 of the first line that a transaction pattern matches, 0 when
        \* there is none
        headerBefore(ls, table_start) ==
            IF table_start = 0 THEN PyStr(JoinWith(<<"\n">>, ls))
            ELSE IF table_start = 1 THEN PyStr(<<"N","o"," ","h","e","a","d","e","r"," ","c","o","n","t","e","n","t"," ","f","o","u","n","d">>)
            ELSE PyStr(JoinWith(<<"\n">>, SubSeq(ls, 1, table_start - 1)))
        headerOfLines(ls) == headerBefore(ls, transaction_table_start(ls))
    IN  IF pdf.fault = "reader"
        THEN PyStr(<<"E","r","r","o","r"," ","p","r","o","c","e","s","s","i","n","g"," ","P","D","F",":"," ">> \o pdf.message)
        ELSE IF ~Truthy(pdf.text) THEN PyStr(<<"N","o"," ","t","e","x","t"," ","f","o","u","n","d"," ","i","n"," ","P","D","F">>)
        ELSE headerOfLines(strippedLines(SplitOn(pdf.text.v, "\n")))

(***************************************************************************)
(* PDFHeaderAnalyzer.analyze_pdf, stage 0: the loop that separates the     *)
(* header from the table, one action per way through the loop body.        *)
(***************************************************************************)
\* The variables of the functions that are not running have the values they
\* have before the first call; the initial condition of the report sets the
\* variables of the report itself
Idle(running) ==
    /\ header_lines = <<>>
    /\ table_lines = <<>>
    /\ table_started = FALSE
    /\ name_line = None
    /\ customer_name = None
    /\ account_number = None
    /\ extracted_name = <<>>
    /\ start_idx = -1
    /\ end_idx = -1
    /\ in_address_block = FALSE
    /\ consecutive_address_lines = 0
    /\ skip_mode = FALSE
    /\ address_line_count = 0
    /\ kept_lines = <<>>
    /\ analysis = None
    /\ stage1_lines = <<>>
    /\ oneshot_name = <<>>
    /\ oneshot_type = <<>>
    /\ number_cleaned_lines = <<>>
    /\ final_cleaned_lines = <<>>
    /\ results = <<>>
    /\ candidates = <<>>
    /\ best_name = <<>>
    /\ stdin = 0
    /\ IF running \in {"report", "analyze_pdf_directory"} THEN TRUE
       ELSE /\ disk = <<>>
            /\ pdf_files = <<>>
            /\ extraction_results = <<>>
            /\ total_files = 0
            /\ successful_extractions = 0
            /\ partial_extractions = 0
            /\ failed_extractions = 0
            /\ summary = None

MaxStage0Lines == 4

InitStage0 ==
    /\ lines \in SeqsUpTo({ <<>>, <<" "," ">>, <<" ","H","D","F","C"," ","B","A","N","K"," ">>, <<"M","R"," ","R","A","J","E","S","H"," ","S","H","A","H">>,
                            <<"D","a","t","e"," ","P","a","r","t","i","c","u","l","a","r","s">>, <<"D","e","b","i","t"," ","C","r","e","d","i","t"," ","B","a","l","a","n","c","e">>,
                            <<"0","1","-","0","1","-","2","4"," ","N","E","F","T"," ","5","0","0",".","0","0">> }, MaxStage0Lines)
    /\ pc = "stage0"
    /\ pos = 1
    /\ Idle("stage0")

\* "if not line: continue"
Stage0Blank ==
    /\ pc = "stage0"
    /\ pos <= Len(lines)
    /\ strip(lines[pos]) = <<>>
    /\ pos' = pos + 1
    /\ UNCHANGED <<pc, lines, stage0Vars, reportVars, nameVars, extractorVars, addressVars,
                   analyzeVars, detectorVars>>

\* a mutation of Stage0Marker: the marker line is skipped and the loop goes on
Stage0MarkerContinues ==
    /\ pc = "stage0"
    /\ pos <= Len(lines)
    /\ strip(lines[pos]) # <<>>
    /\ is_table_header(strip(lines[pos])) \/ is_transaction_line(strip(lines[pos]))
    /\ pos' = pos + 1
    /\ UNCHANGED <<pc, lines, stage0Vars, reportVars, nameVars, extractorVars, addressVars,
                   analyzeVars, detectorVars>>

\* "if self.is_table_header(line) or self.is_transaction_line(line): break"
Stage0Marker ==
    /\ pc = "stage0"
    /\ pos <= Len(lines)
    /\ strip(lines[pos]) # <<>>
    /\ is_table_header(strip(lines[pos])) \/ is_transaction_line(strip(lines[pos]))
    /\ pc' = "stage0_done"
    /\ UNCHANGED <<lines, pos, stage0Vars, reportVars, nameVars, extractorVars, addressVars,
                   analyzeVars, detectorVars>>

\* "header_lines.append(line)"
Stage0Append ==
    /\ pc = "stage0"
    /\ pos <= Len(lines)
    /\ strip(lines[pos]) # <<>>
    /\ ~is_table_header(strip(lines[pos]))
    /\ ~is_transaction_line(strip(lines[pos]))
    /\ header_lines' = Append(header_lines, strip(lines[pos]))
    /\ pos' = pos + 1
    /\ UNCHANGED <<pc, lines, table_lines, table_started, reportVars, nameVars, extractorVars, addressVars,
                   analyzeVars, detectorVars>>

\* the for loop runs out of lines
Stage0Exhausted ==
    /\ pc = "stage0"
    /\ pos > Len(lines)
    /\ pc' = "stage0_done"
    /\ UNCHANGED <<lines, pos, stage0Vars, reportVars, nameVars, extractorVars, addressVars,
                   analyzeVars, detectorVars>>

SpecStage0 ==
    InitStage0
    /\ [][\/ Stage0Blank
          \/ Stage0Marker
          \/ Stage0Append
          \/ Stage0Exhausted]_vars

(***************************************************************************)
(* test_pdf_extraction_report.py: generate_extraction_report, one action   *)
(* per pass through the body of the loop over the PDF files.  Writing the  *)
(* spreadsheet after the summary is not modelled.                          *)
(***************************************************************************)
\* control characters are removed; the texts here have no non-ASCII ones
clean_text_for_excel(text) ==
    IF text.tag # "str" THEN text
    ELSE PyStr(SelectSeq(text.v, LAMBDA c : c \notin {"\n", "\t"}))

MaxPdfs == 2

\* a statement with a labelled name, a branch line and a table
C3Text == <<"A","C","C","O","U","N","T"," ","S","T","A","T","E","M","E","N","T","\n","C","U","S","T","O","M","E","R"," ","N","A","M","E",":"," ","S","U","R","E","S","H"," ","P","A","T","E","L","\n","B","R","A","N","C","H",":"," ","A","N","D","H","E","R","I","\n","D","a","t","e"," ","P","a","r","t","i","c","u","l","a","r","s"," ","D","e","b","i","t"," ","C","r","e","d","i","t","\n","0","1","-","0","1","-","2","4"," ",".",".",".">>

Readable(text) == [text |-> PyStr(text), fault |-> "none", message |-> <<>>]

\* What a file can give: texts with and without name, account number and
\* table, a file the reader cannot open, and a text the console cannot show
InitReport ==
    LET FileNames == <<"a.pdf", "b.pdf", "c.pdf">>
        Pdfs ==
            { Readable(<<>>),
              Readable(<<" ","\n"," ">>),
              Readable(<<"#","#","#">>),
              Readable(C3Text),
              Readable(<<"M","R"," ","R","A","J","E","S","H"," ","S","H","A","H","\n","D","a","t","e"," ","N","a","r","r","a","t","i","o","n">>),
              Readable(<<"H","D","F","C"," ","B","A","N","K","\n","S","A","V","I","N","G","S">>),
              Readable(<<"N","A","M","E"," ","J","O","H","N"," ","S","M","I","T","H","\n","A","/","C"," ","N","O"," ","1","2","3","4","5","6","7","8","9","0","1","2","3">>),
              Readable(<<"D","a","t","e"," ","N","a","r","r","a","t","i","o","n","\n","M","R"," ","R","A","J","E","S","H"," ","S","H","A","H">>),
              [text |-> None, fault |-> "reader",
               message |-> <<"E","O","F"," ","m","a","r","k","e","r"," ","n","o","t"," ","f","o","u","n","d">>],
              [text |-> PyStr(<<"M","R"," ","R","A","J","E","S","H"," ","S","H","A","H">>), fault |-> "console",
               message |-> <<"c","o","d","e","c"," ","c","a","n","'","t"," ","e","n","c","o","d","e"," ","c","h","a","r","a","c","t","e","r">>] }
    IN  /\ \E n \in 0..MaxPdfs :
              /\ pdf_files = SubSeq(FileNames, 1, n)
              /\ disk \in [{FileNames[k] : k \in 1..n} -> Pdfs]
        /\ pc = "report"
        /\ pos = 1
        /\ extraction_results = <<>>
        /\ total_files = Len(pdf_files)
        /\ successful_extractions = 0
        /\ partial_extractions = 0
        /\ failed_extractions = 0
        /\ summary = None
        /\ lines = <<>>
        /\ Idle("report")

\* "if not pdf_files: ... return"
NoPdfFiles ==
    /\ pc = "report"
    /\ pdf_files = <<>>
    /\ pc' = "report_returned"
    /\ UNCHANGED <<lines, pos, stage0Vars, reportVars, nameVars, extractorVars, addressVars,
                   analyzeVars, detectorVars>>

\* the result dictionary at the end of a try block that ran to its end
Extracted(pdf_file, raw_content, filtered_data) ==
    LET status == IF /\ Truthy(filtered_data.account_number)
                     /\ Truthy(filtered_data.customer_name) THEN "Success"
                  ELSE IF \/ Truthy(filtered_data.account_number)
                          \/ Truthy(filtered_data.customer_name) THEN "Partial"
                  ELSE "Failed"
    IN  [PDF_File |-> pdf_file,
         Account_Number |-> filtered_data.account_number,
         Customer_Name |-> filtered_data.customer_name,
         Extraction_Status |-> status,
         Error_Message |-> IF status = "Failed"
                           THEN PyStr(<<"N","o"," ","a","c","c","o","u","n","t"," ","n","u","m","b","e","r"," ","o","r"," ","c","u","s","t","o","m","e","r"," ","n","a","m","e"," ","f","o","u","n","d">>)
                           ELSE None,
         Raw_Content |-> clean_text_for_excel(raw_content),
         Cleaned_Content |-> clean_text_for_excel(filtered_data.cleaned_content),
         Account_Line |-> clean_text_for_excel(filtered_data.account_line),
         Name_Line |-> clean_text_for_excel(filtered_data.name_line)]

\* a mutation of ProcessPdf: the else branch does not count the failure
ProcessPdfFailureNotCounted ==
    /\ pc = "report"
    /\ pos <= Len(pdf_files)
    /\ disk[pdf_files[pos]].fault # "console"
    /\ \E raw_content \in {extract_header_content(disk[pdf_files[pos]])} :
       \E result \in {Extracted(pdf_files[pos], raw_content,
                                filter_header_data(raw_content))} :
           /\ extraction_results' = Append(extraction_results, result)
           /\ successful_extractions' = successful_extractions +
                  (IF result.Extraction_Status = "Success" THEN 1 ELSE 0)
           /\ partial_extractions' = partial_extractions +
                  (IF result.Extraction_Status = "Partial" THEN 1 ELSE 0)
           /\ failed_extractions' = failed_extractions
    /\ pos' = pos + 1
    /\ UNCHANGED <<pc, lines, stage0Vars, nameVars, disk, pdf_files, total_files, summary, extractorVars, addressVars,
                   analyzeVars, detectorVars>>

\* one file, the try block runs to its end
ProcessPdf ==
    /\ pc = "report"
    /\ pos <= Len(pdf_files)
    /\ disk[pdf_files[pos]].fault # "console"
    /\ \E raw_content \in {extract_header_content(disk[pdf_files[pos]])} :
       \E result \in {Extracted(pdf_files[pos], raw_content,
                                filter_header_data(raw_content))} :
           /\ extraction_results' = Append(extraction_results, result)
           /\ successful_extractions' = successful_extractions +
                  (IF result.Extraction_Status = "Success" THEN 1 ELSE 0)
           /\ partial_extractions' = partial_extractions +
                  (IF result.Extraction_Status = "Partial" THEN 1 ELSE 0)
           /\ failed_extractions' = failed_extractions +
                  (IF result.Extraction_Status = "Failed" THEN 1 ELSE 0)
    /\ pos' = pos + 1
    /\ UNCHANGED <<pc, lines, stage0Vars, nameVars, disk, pdf_files, total_files, summary, extractorVars, addressVars,
                   analyzeVars, detectorVars>>

\* a mutation of ProcessPdfRaises: the result dictionary is shared by the
\* passes of the loop, so the entries that the pass does not set are those
\* of the file before
ProcessPdfRaisesSharedResult ==
    /\ pc = "report"
    /\ pos <= Len(pdf_files)
    /\ disk[pdf_files[pos]].fault = "console"
    /\ extraction_results' = Append(extraction_results,
           [(IF extraction_results = <<>>
             THEN [PDF_File |-> pdf_files[pos], Account_Number |-> None,
                   Customer_Name |-> None, Extraction_Status |-> "Failed",
                   Error_Message |-> None, Raw_Content |-> None,
                   Cleaned_Content |-> None, Account_Line |-> None,
                   Name_Line |-> None]
             ELSE extraction_results[Len(extraction_results)])
            EXCEPT !.PDF_File = pdf_files[pos],
                   !.Error_Message = PyStr(disk[pdf_files[pos]].message),
                   !.Raw_Content = clean_text_for_excel(
                                       extract_header_content(disk[pdf_files[pos]]))])
    /\ failed_extractions' = failed_extractions + 1
    /\ pos' = pos + 1
    /\ UNCHANGED <<pc, lines, stage0Vars, nameVars, disk, pdf_files, total_files,
                   successful_extractions, partial_extractions, summary,
                   extractorVars, addressVars, analyzeVars, detectorVars>>

\* one file, the first print of the try block raises (a console that cannot
\* encode the text): "except Exception as e"
ProcessPdfRaises ==
    /\ pc = "report"
    /\ pos <= Len(pdf_files)
    /\ disk[pdf_files[pos]].fault = "console"
    /\ extraction_results' = Append(extraction_results,
           \* the result dictionary as it is before the try block, with the
           \* two entries set before and after the exception
           [PDF_File |-> pdf_files[pos], Account_Number |-> None,
            Customer_Name |-> None, Extraction_Status |-> "Failed",
            Error_Message |-> PyStr(disk[pdf_files[pos]].message),
            Raw_Content |-> clean_text_for_excel(
                                extract_header_content(disk[pdf_files[pos]])),
            Cleaned_Content |-> None, Account_Line |-> None, Name_Line |-> None])
    /\ failed_extractions' = failed_extractions + 1
    /\ pos' = pos + 1
    /\ UNCHANGED <<pc, lines, stage0Vars, nameVars, disk, pdf_files, total_files,
                   successful_extractions, partial_extractions, summary, extractorVars, addressVars,
                   analyzeVars, detectorVars>>

\* after the loop: the summary report
SummaryReport ==
    /\ pc = "report"
    /\ pdf_files # <<>>
    /\ pos > Len(pdf_files)
    /\ summary' = [total |-> total_files,
                   successful |-> successful_extractions,
                   partial |-> partial_extractions,
                   failed |-> failed_extractions]
    /\ pc' = "report_done"
    /\ UNCHANGED <<lines, pos, stage0Vars, nameVars, disk, pdf_files, extraction_results,
                   total_files, successful_extractions, partial_extractions,
                   failed_extractions, extractorVars, addressVars,
                   analyzeVars, detectorVars>>

SpecReport ==
    InitReport
    /\ [][\/ NoPdfFiles
          \/ ProcessPdf
          \/ ProcessPdfRaises
          \/ SummaryReport]_vars


\* C2: every document whose try block ran to its end has status 'Success'
\* exactly when both an account number and a customer name were found,
\* 'Partial' exactly when exactly one of them was found, and 'Failed' when
\* neither was found.  An account number was found when the record holds a
\* number, a name when it holds a name.
C2_StatusMatchesFindings ==
    \A k \in 1..Len(extraction_results) :
        LET r == extraction_results[k]
            account_found ==
                \/ r.Account_Number.tag = "str"
                \/ r.Account_Number.tag = "tuple" /\ r.Account_Number.v[1] # None
            name_found == r.Customer_Name # None
        IN  disk[r.PDF_File].fault # "console" =>
                /\ r.Extraction_Status = "Success" <=> account_found /\ name_found
                /\ r.Extraction_Status = "Partial" <=> account_found # name_found
                /\ ~account_found /\ ~name_found => r.Extraction_Status = "Failed"

\* C3: the document with the lines 'ACCOUNT STATEMENT', 'CUSTOMER NAME:
\* SURESH PATEL', 'BRANCH: ANDHERI', 'Date Particulars Debit Credit',
\* '01-01-24 ...' gets customer name 'SURESH PATEL' and account number None.
C3_SureshPatel ==
    \A k \in 1..Len(extraction_results) :
        disk[extraction_results[k].PDF_File] = Readable(C3Text) =>
            /\ extraction_results[k].Customer_Name = PyStr(<<"S","U","R","E","S","H"," ","P","A","T","E","L">>)
            /\ extraction_results[k].Account_Number = None

\* C4: a document whose extracted text is empty gets account number None,
\* customer name None and status 'Failed'.
C4_EmptyTextFails ==
    \A k \in 1..Len(extraction_results) :
        disk[extraction_results[k].PDF_File] = Readable(<<>>) =>
            /\ extraction_results[k].Account_Number = None
            /\ extraction_results[k].Customer_Name = None
            /\ extraction_results[k].Extraction_Status = "Failed"

\* C5: a document whose processing raised an exception is recorded as
\* 'Failed' with the message of the exception; every document gets a record
\* and the summary is produced after the last one.
C5_ExceptionsRecorded ==
    /\ \A k \in 1..Len(extraction_results) :
          disk[extraction_results[k].PDF_File].fault # "none" =>
              /\ extraction_results[k].Extraction_Status = "Failed"
              /\ extraction_results[k].Error_Message =
                     PyStr(disk[extraction_results[k].PDF_File].message)
    /\ pc = "report_done" =>
          /\ Len(extraction_results) = Len(pdf_files)
          /\ summary # None

\* C1: when stage 0 has finished, the header is exactly the trimmed non-empty
\* lines that come before the first line classified as a table header or a
\* transaction line (all of them when no line is so classified); no line at
\* or after that marker is in the header.
C1_HeaderIsPrefixBeforeMarker ==
    pc = "stage0_done" =>
        LET trimmed == [k \in 1..Len(lines) |-> strip(lines[k])] \o <<>>
            kept == SelectSeq(trimmed, LAMBDA l : l # <<>>)
            marker == FirstTrue([k \in 1..Len(kept) |->
                          is_table_header(kept[k]) \/ is_transaction_line(kept[k])] \o <<>>)
        IN  header_lines = IF marker = 0 THEN kept ELSE SubSeq(kept, 1, marker - 1)

\* C1 witness: stage 0 stopped at a marker that has a blank line and a header
\* line before it and an ordinary line after it
C1_Witness ==
    /\ pc = "stage0_done"
    /\ pos < Len(lines)
    /\ header_lines # <<>>
    /\ Len(header_lines) < pos - 1
    /\ ~is_table_header(strip(lines[pos + 1]))
    /\ ~is_transaction_line(strip(lines[pos + 1]))
    /\ strip(lines[pos + 1]) # <<>>

(***************************************************************************)
(* header_data_filter.py: find_name_line run on the cleaned lines, one      *)
(* action per way through the body of each of its two loops, followed by    *)
(* the extract_name_from_line call of filter_header_data.                   *)
(***************************************************************************)
MaxNameLines == 3

C8Line == <<"N","A","M","E"," ","O","F"," ","C","U","S","T","O","M","E","R",":"," ","J","O","H","N"," ","S","M","I","T","H"," ","K","U","M","A","R">>

\* cleaned lines: stripped, not empty, without special characters
InitNameLine ==
    /\ lines \in SeqsUpTo({ C8Line, <<"N","A","M","E"," ","J","O","H","N"," ","S","M","I","T","H">>, <<"M","R"," ","R","A","J","E","S","H"," ","S","H","A","H">>,
                            <<"M","/","S","."," ","A","B","C"," ","T","R","A","D","E","R","S">>, <<"B","R","A","N","C","H"," ","N","A","M","E"," ","A","N","D","H","E","R","I">>,
                            <<"H","D","F","C"," ","B","A","N","K">> }, MaxNameLines)
    /\ pc = "step1"
    /\ pos = 1
    /\ Idle("find_name_line")

\* Step 1, "if not line or is_branch_line(i, cleaned_lines): continue"
Step1Skip ==
    /\ pc = "step1"
    /\ pos <= Len(lines)
    /\ SkippedLine(pos, lines)
    /\ pos' = pos + 1
    /\ UNCHANGED <<pc, lines, nameVars, stage0Vars, reportVars, extractorVars, addressVars,
                   analyzeVars, detectorVars>>

\* Step 1 and Step 2 in one loop: a line without an explicit name indicator
\* is returned at once when a prefix pattern gives a name
Step1NoNameTriesPrefixes ==
    /\ pc = "step1"
    /\ pos <= Len(lines)
    /\ ~SkippedLine(pos, lines)
    /\ ~Step1Matches(strip(lines[pos]))
    /\ IF Step2Matches(strip(lines[pos]))
       THEN /\ name_line' = PyStr(strip(lines[pos]))
            /\ pc' = "found_name_line"
            /\ UNCHANGED pos
       ELSE /\ pos' = pos + 1
            /\ UNCHANGED <<pc, name_line>>
    /\ UNCHANGED <<account_number, lines, customer_name, stage0Vars, reportVars, extractorVars, addressVars,
                   analyzeVars, detectorVars>>

\* Step 1, no pattern of name_indicators gives a name: next line
Step1NoName ==
    /\ pc = "step1"
    /\ pos <= Len(lines)
    /\ ~SkippedLine(pos, lines)
    /\ ~Step1Matches(strip(lines[pos]))
    /\ pos' = pos + 1
    /\ UNCHANGED <<pc, lines, nameVars, stage0Vars, reportVars, extractorVars, addressVars,
                   analyzeVars, detectorVars>>

\* Step 1, "if name: ... return line"
Step1Return ==
    /\ pc = "step1"
    /\ pos <= Len(lines)
    /\ ~SkippedLine(pos, lines)
    /\ Step1Matches(strip(lines[pos]))
    /\ name_line' = PyStr(strip(lines[pos]))
    /\ pc' = "found_name_line"
    /\ UNCHANGED <<account_number, lines, pos, customer_name, stage0Vars, reportVars, extractorVars, addressVars,
                   analyzeVars, detectorVars>>

\* the loop of Step 1 ends without a return: Step 2 starts at the first line
Step1End ==
    /\ pc = "step1"
    /\ pos > Len(lines)
    /\ pc' = "step2"
    /\ pos' = 1
    /\ UNCHANGED <<lines, nameVars, stage0Vars, reportVars, extractorVars, addressVars,
                   analyzeVars, detectorVars>>

\* Step 2, "if not line or is_branch_line(i, cleaned_lines): continue"
Step2Skip ==
    /\ pc = "step2"
    /\ pos <= Len(lines)
    /\ SkippedLine(pos, lines)
    /\ pos' = pos + 1
    /\ UNCHANGED <<pc, lines, nameVars, stage0Vars, reportVars, extractorVars, addressVars,
                   analyzeVars, detectorVars>>

\* Step 2, no pattern of name_prefixes gives a name: next line
Step2NoName ==
    /\ pc = "step2"
    /\ pos <= Len(lines)
    /\ ~SkippedLine(pos, lines)
    /\ ~Step2Matches(strip(lines[pos]))
    /\ pos' = pos + 1
    /\ UNCHANGED <<pc, lines, nameVars, stage0Vars, reportVars, extractorVars, addressVars,
                   analyzeVars, detectorVars>>

\* Step 2, "if name: ... return line"
Step2Return ==
    /\ pc = "step2"
    /\ pos <= Len(lines)
    /\ ~SkippedLine(pos, lines)
    /\ Step2Matches(strip(lines[pos]))
    /\ name_line' = PyStr(strip(lines[pos]))
    /\ pc' = "found_name_line"
    /\ UNCHANGED <<account_number, lines, pos, customer_name, stage0Vars, reportVars, extractorVars, addressVars,
                   analyzeVars, detectorVars>>

\* the loop of Step 2 ends without a return: find_name_line returns None
Step2End ==
    /\ pc = "step2"
    /\ pos > Len(lines)
    /\ name_line' = None
    /\ pc' = "found_name_line"
    /\ UNCHANGED <<account_number, lines, pos, customer_name, stage0Vars, reportVars, extractorVars, addressVars,
                   analyzeVars, detectorVars>>

\* "customer_name = extract_name_from_line(name_line) if name_line else None"
ExtractName ==
    /\ pc = "found_name_line"
    /\ customer_name' = IF Truthy(name_line)
                        THEN extract_name_from_line(name_line) ELSE None
    /\ pc' = "name_done"
    /\ UNCHANGED <<account_number, lines, pos, name_line, stage0Vars, reportVars, extractorVars, addressVars,
                   analyzeVars, detectorVars>>

SpecNameLine ==
    InitNameLine
    /\ [][\/ Step1Skip
          \/ Step1NoName
          \/ Step1Return
          \/ Step1End
          \/ Step2Skip
          \/ Step2NoName
          \/ Step2Return
          \/ Step2End
          \/ ExtractName]_vars

\* the first line of ls at which Step 1 returns (0: none)
FirstStep1Line(ls) ==
    FirstTrue([k \in 1..Len(ls) |->
        ~SkippedLine(k, ls) /\ Step1Matches(strip(ls[k]))] \o <<>>)

\* C6: once find_name_line has returned, if some line it does not skip gives
\* a valid name with an explicit name-label pattern (step 1), the returned
\* line is the first such line, whatever title or business-prefix lines
\* (step 2) come before it.
C6_Step1BeforeStep2 ==
    pc \in {"found_name_line", "name_done"} =>
        \A k \in {FirstStep1Line(lines)} :
            k # 0 => name_line = PyStr(strip(lines[k]))

\* C6 witness: find_name_line has returned the second line, found by step 1,
\* although the first line gives a name with a step 2 pattern
C6_Witness ==
    \* the first line of ls at which Step 2 returns (0: none)
    LET FirstStep2Line(ls) ==
        FirstTrue([k \in 1..Len(ls) |->
            ~SkippedLine(k, ls) /\ Step2Matches(strip(ls[k]))] \o <<>>)
    IN
    /\ pc = "found_name_line"
    /\ Len(lines) = 2
    /\ FirstStep2Line(lines) = 1
    /\ FirstStep1Line(lines) = 2
    /\ name_line = PyStr(strip(lines[2]))

\* C8: when the cleaned lines contain 'NAME OF CUSTOMER: JOHN SMITH KUMAR',
\* find_name_line returns that line and the name extracted from it is
\* 'JOHN SMITH KUMAR'.
C8_NameOfCustomer ==
    pc = "name_done" /\ InSeq(C8Line, lines) =>
        /\ name_line = PyStr(C8Line)
        /\ customer_name = PyStr(<<"J","O","H","N"," ","S","M","I","T","H"," ","K","U","M","A","R">>)

(***************************************************************************)
(* claudeattempt.py, class PDFNameExtractor                                 *)
(***************************************************************************)
clean_name(name) ==
    LET leading_or_trailing_non_letters ==
    [k |-> "alt", xs |-> <<[k |-> "cat", xs |-> <<[k |-> "bol"], [k |-> "rep", x |-> [k |-> "set", cs |-> LOWER \cup UPPER, neg |-> TRUE], lo |-> 1, hi |-> 1, open |-> TRUE, lazy |-> FALSE]>>], [k |-> "cat", xs |-> <<[k |-> "rep", x |-> [k |-> "set", cs |-> LOWER \cup UPPER, neg |-> TRUE], lo |-> 1, hi |-> 1, open |-> TRUE, lazy |-> FALSE], [k |-> "eol"]>>]>>]
        white_space_run ==
    [k |-> "rep", x |-> [k |-> "set", cs |-> SPACE, neg |-> FALSE], lo |-> 1, hi |-> 1, open |-> TRUE, lazy |-> FALSE]
    IN  Sub(white_space_run, <<" ">>,
            Sub(leading_or_trailing_non_letters, <<>>, strip(name), FALSE), FALSE)

\* what the loop over name_patterns["direct_name"] returns: the cleaned
\* group of the first pattern that matches, None when it returns nothing
DirectName(line) ==
    \* name_patterns["direct_name"], matched as written (no re.IGNORECASE)
    LET direct_name ==
        << <<
    [k |-> "cat", xs |-> <<[k |-> "lit", s |-> <<"N","a","m","e">>], [k |-> "rep", x |-> [k |-> "set", cs |-> SPACE, neg |-> FALSE], lo |-> 0, hi |-> 0, open |-> TRUE, lazy |-> FALSE], [k |-> "lit", s |-> <<":">>], [k |-> "rep", x |-> [k |-> "set", cs |-> SPACE, neg |-> FALSE], lo |-> 0, hi |-> 0, open |-> TRUE, lazy |-> FALSE]>>], [k |-> "cat", xs |-> <<[k |-> "set", cs |-> UPPER, neg |-> FALSE], [k |-> "rep", x |-> [k |-> "set", cs |-> UPPER \cup SPACE, neg |-> FALSE], lo |-> 1, hi |-> 1, open |-> TRUE, lazy |-> FALSE], [k |-> "rep", x |-> [k |-> "alt", xs |-> <<[k |-> "lit", s |-> <<"L","I","M","I","T","E","D">>], [k |-> "cat", xs |-> <<[k |-> "lit", s |-> <<"P","V","T">>], [k |-> "rep", x |-> [k |-> "lit", s |-> <<".">>], lo |-> 0, hi |-> 1, open |-> FALSE, lazy |-> FALSE], [k |-> "rep", x |-> [k |-> "set", cs |-> SPACE, neg |-> FALSE], lo |-> 0, hi |-> 0, open |-> TRUE, lazy |-> FALSE], [k |-> "lit", s |-> <<"L","T","D">>], [k |-> "rep", x |-> [k |-> "lit", s |-> <<".">>], lo |-> 0, hi |-> 1, open |-> FALSE, lazy |-> FALSE]>>]>>], lo |-> 0, hi |-> 1, open |-> FALSE, lazy |-> FALSE]>>], [k |-> "cat", xs |-> <<>>]
        >>, <<
    [k |-> "cat", xs |-> <<[k |-> "lit", s |-> <<"N","a","m","e"," ","o","f"," ","C","u","s","t","o","m","e","r">>], [k |-> "rep", x |-> [k |-> "set", cs |-> SPACE, neg |-> FALSE], lo |-> 0, hi |-> 0, open |-> TRUE, lazy |-> FALSE], [k |-> "lit", s |-> <<":">>], [k |-> "rep", x |-> [k |-> "set", cs |-> SPACE, neg |-> FALSE], lo |-> 0, hi |-> 0, open |-> TRUE, lazy |-> FALSE]>>], [k |-> "cat", xs |-> <<[k |-> "set", cs |-> UPPER, neg |-> FALSE], [k |-> "rep", x |-> [k |-> "set", cs |-> UPPER \cup SPACE, neg |-> FALSE], lo |-> 1, hi |-> 1, open |-> TRUE, lazy |-> FALSE], [k |-> "rep", x |-> [k |-> "alt", xs |-> <<[k |-> "lit", s |-> <<"L","I","M","I","T","E","D">>], [k |-> "cat", xs |-> <<[k |-> "lit", s |-> <<"P","V","T">>], [k |-> "rep", x |-> [k |-> "lit", s |-> <<".">>], lo |-> 0, hi |-> 1, open |-> FALSE, lazy |-> FALSE], [k |-> "rep", x |-> [k |-> "set", cs |-> SPACE, neg |-> FALSE], lo |-> 0, hi |-> 0, open |-> TRUE, lazy |-> FALSE], [k |-> "lit", s |-> <<"L","T","D">>], [k |-> "rep", x |-> [k |-> "lit", s |-> <<".">>], lo |-> 0, hi |-> 1, open |-> FALSE, lazy |-> FALSE]>>]>>], lo |-> 0, hi |-> 1, open |-> FALSE, lazy |-> FALSE]>>], [k |-> "cat", xs |-> <<>>]
        >>, <<
    [k |-> "cat", xs |-> <<[k |-> "lit", s |-> <<"C","u","s","t","o","m","e","r"," ","N","a","m","e">>], [k |-> "rep", x |-> [k |-> "set", cs |-> SPACE, neg |-> FALSE], lo |-> 0, hi |-> 0, open |-> TRUE, lazy |-> FALSE], [k |-> "lit", s |-> <<":">>], [k |-> "rep", x |-> [k |-> "set", cs |-> SPACE, neg |-> FALSE], lo |-> 0, hi |-> 0, open |-> TRUE, lazy |-> FALSE]>>], [k |-> "cat", xs |-> <<[k |-> "set", cs |-> UPPER, neg |-> FALSE], [k |-> "rep", x |-> [k |-> "set", cs |-> UPPER \cup SPACE, neg |-> FALSE], lo |-> 1, hi |-> 1, open |-> TRUE, lazy |-> FALSE], [k |-> "rep", x |-> [k |-> "alt", xs |-> <<[k |-> "lit", s |-> <<"L","I","M","I","T","E","D">>], [k |-> "cat", xs |-> <<[k |-> "lit", s |-> <<"P","V","T">>], [k |-> "rep", x |-> [k |-> "lit", s |-> <<".">>], lo |-> 0, hi |-> 1, open |-> FALSE, lazy |-> FALSE], [k |-> "rep", x |-> [k |-> "set", cs |-> SPACE, neg |-> FALSE], lo |-> 0, hi |-> 0, open |-> TRUE, lazy |-> FALSE], [k |-> "lit", s |-> <<"L","T","D">>], [k |-> "rep", x |-> [k |-> "lit", s |-> <<".">>], lo |-> 0, hi |-> 1, open |-> FALSE, lazy |-> FALSE]>>]>>], lo |-> 0, hi |-> 1, open |-> FALSE, lazy |-> FALSE]>>], [k |-> "cat", xs |-> <<>>]
        >>, <<
    [k |-> "cat", xs |-> <<[k |-> "lit", s |-> <<"A","/","c"," ","N","a","m","e">>], [k |-> "rep", x |-> [k |-> "set", cs |-> SPACE, neg |-> FALSE], lo |-> 0, hi |-> 0, open |-> TRUE, lazy |-> FALSE], [k |-> "lit", s |-> <<":">>], [k |-> "rep", x |-> [k |-> "set", cs |-> SPACE, neg |-> FALSE], lo |-> 0, hi |-> 0, open |-> TRUE, lazy |-> FALSE]>>], [k |-> "cat", xs |-> <<[k |-> "set", cs |-> UPPER, neg |-> FALSE], [k |-> "rep", x |-> [k |-> "set", cs |-> UPPER \cup SPACE, neg |-> FALSE], lo |-> 1, hi |-> 1, open |-> TRUE, lazy |-> FALSE], [k |-> "rep", x |-> [k |-> "alt", xs |-> <<[k |-> "lit", s |-> <<"L","I","M","I","T","E","D">>], [k |-> "cat", xs |-> <<[k |-> "lit", s |-> <<"P","V","T">>], [k |-> "rep", x |-> [k |-> "lit", s |-> <<".">>], lo |-> 0, hi |-> 1, open |-> FALSE, lazy |-> FALSE], [k |-> "rep", x |-> [k |-> "set", cs |-> SPACE, neg |-> FALSE], lo |-> 0, hi |-> 0, open |-> TRUE, lazy |-> FALSE], [k |-> "lit", s |-> <<"L","T","D">>], [k |-> "rep", x |-> [k |-> "lit", s |-> <<".">>], lo |-> 0, hi |-> 1, open |-> FALSE, lazy |-> FALSE]>>]>>], lo |-> 0, hi |-> 1, open |-> FALSE, lazy |-> FALSE]>>], [k |-> "cat", xs |-> <<>>]
        >>, <<
    [k |-> "cat", xs |-> <<[k |-> "lit", s |-> <<"A","c","c","o","u","n","t"," ","N","a","m","e">>], [k |-> "rep", x |-> [k |-> "set", cs |-> SPACE, neg |-> FALSE], lo |-> 0, hi |-> 0, open |-> TRUE, lazy |-> FALSE], [k |-> "lit", s |-> <<":">>], [k |-> "rep", x |-> [k |-> "set", cs |-> SPACE, neg |-> FALSE], lo |-> 0, hi |-> 0, open |-> TRUE, lazy |-> FALSE]>>], [k |-> "cat", xs |-> <<[k |-> "set", cs |-> UPPER, neg |-> FALSE], [k |-> "rep", x |-> [k |-> "set", cs |-> UPPER \cup SPACE, neg |-> FALSE], lo |-> 1, hi |-> 1, open |-> TRUE, lazy |-> FALSE], [k |-> "rep", x |-> [k |-> "alt", xs |-> <<[k |-> "lit", s |-> <<"L","I","M","I","T","E","D">>], [k |-> "cat", xs |-> <<[k |-> "lit", s |-> <<"P","V","T">>], [k |-> "rep", x |-> [k |-> "lit", s |-> <<".">>], lo |-> 0, hi |-> 1, open |-> FALSE, lazy |-> FALSE], [k |-> "rep", x |-> [k |-> "set", cs |-> SPACE, neg |-> FALSE], lo |-> 0, hi |-> 0, open |-> TRUE, lazy |-> FALSE], [k |-> "lit", s |-> <<"L","T","D">>], [k |-> "rep", x |-> [k |-> "lit", s |-> <<".">>], lo |-> 0, hi |-> 1, open |-> FALSE, lazy |-> FALSE]>>]>>], lo |-> 0, hi |-> 1, open |-> FALSE, lazy |-> FALSE]>>], [k |-> "cat", xs |-> <<>>]
        >> >>
    IN
    LET \* p: the first direct_name pattern that matches line (0: none)
        directFrom(p) ==
            IF p = 0 THEN None
            ELSE PyStr(clean_name(
                     SearchGroups(direct_name[p][1], direct_name[p][2],
                                  direct_name[p][3], line, FALSE).group1))
    IN  directFrom(FirstTrue([p \in 1..Len(direct_name) |->
                       SearchGroups(direct_name[p][1], direct_name[p][2],
                                    direct_name[p][3], line, FALSE) # None] \o <<>>))

extract_name_from_priority_patterns(line) ==
    \* name_patterns["business"]; the fourth item of each is
    \* pattern.startswith(r"M/[Ss]")
    LET business ==
        << <<
    [k |-> "cat", xs |-> <<[k |-> "lit", s |-> <<"M","/">>], [k |-> "set", cs |-> {"S", "s"}, neg |-> FALSE], [k |-> "lit", s |-> <<".">>], [k |-> "rep", x |-> [k |-> "set", cs |-> SPACE, neg |-> FALSE], lo |-> 0, hi |-> 0, open |-> TRUE, lazy |-> FALSE]>>], [k |-> "cat", xs |-> <<[k |-> "set", cs |-> UPPER, neg |-> FALSE], [k |-> "rep", x |-> [k |-> "set", cs |-> UPPER \cup SPACE, neg |-> FALSE], lo |-> 1, hi |-> 1, open |-> TRUE, lazy |-> FALSE], [k |-> "rep", x |-> [k |-> "alt", xs |-> <<[k |-> "lit", s |-> <<"L","I","M","I","T","E","D">>], [k |-> "cat", xs |-> <<[k |-> "lit", s |-> <<"P","V","T">>], [k |-> "rep", x |-> [k |-> "lit", s |-> <<".">>], lo |-> 0, hi |-> 1, open |-> FALSE, lazy |-> FALSE], [k |-> "rep", x |-> [k |-> "set", cs |-> SPACE, neg |-> FALSE], lo |-> 0, hi |-> 0, open |-> TRUE, lazy |-> FALSE], [k |-> "lit", s |-> <<"L","T","D">>], [k |-> "rep", x |-> [k |-> "lit", s |-> <<".">>], lo |-> 0, hi |-> 1, open |-> FALSE, lazy |-> FALSE]>>]>>], lo |-> 0, hi |-> 1, open |-> FALSE, lazy |-> FALSE]>>], [k |-> "cat", xs |-> <<>>]
        , TRUE >>, <<
    [k |-> "cat", xs |-> <<[k |-> "lit", s |-> <<"M","/">>], [k |-> "set", cs |-> {"S", "s"}, neg |-> FALSE], [k |-> "rep", x |-> [k |-> "set", cs |-> SPACE, neg |-> FALSE], lo |-> 1, hi |-> 1, open |-> TRUE, lazy |-> FALSE]>>], [k |-> "cat", xs |-> <<[k |-> "set", cs |-> UPPER, neg |-> FALSE], [k |-> "rep", x |-> [k |-> "set", cs |-> UPPER \cup SPACE, neg |-> FALSE], lo |-> 1, hi |-> 1, open |-> TRUE, lazy |-> FALSE], [k |-> "rep", x |-> [k |-> "alt", xs |-> <<[k |-> "lit", s |-> <<"L","I","M","I","T","E","D">>], [k |-> "cat", xs |-> <<[k |-> "lit", s |-> <<"P","V","T">>], [k |-> "rep", x |-> [k |-> "lit", s |-> <<".">>], lo |-> 0, hi |-> 1, open |-> FALSE, lazy |-> FALSE], [k |-> "rep", x |-> [k |-> "set", cs |-> SPACE, neg |-> FALSE], lo |-> 0, hi |-> 0, open |-> TRUE, lazy |-> FALSE], [k |-> "lit", s |-> <<"L","T","D">>], [k |-> "rep", x |-> [k |-> "lit", s |-> <<".">>], lo |-> 0, hi |-> 1, open |-> FALSE, lazy |-> FALSE]>>]>>], lo |-> 0, hi |-> 1, open |-> FALSE, lazy |-> FALSE]>>], [k |-> "cat", xs |-> <<>>]
        , TRUE >>, <<
    [k |-> "bol"], [k |-> "cat", xs |-> <<[k |-> "set", cs |-> UPPER, neg |-> FALSE], [k |-> "rep", x |-> [k |-> "set", cs |-> UPPER \cup SPACE, neg |-> FALSE], lo |-> 1, hi |-> 1, open |-> TRUE, lazy |-> FALSE], [k |-> "alt", xs |-> <<[k |-> "lit", s |-> <<"L","I","M","I","T","E","D">>], [k |-> "lit", s |-> <<"P","R","I","V","A","T","E"," ","L","I","M","I","T","E","D">>]>>]>>], [k |-> "eol"]
        , FALSE >> >>
    IN
    LET \* "if pattern.startswith(r"M/[Ss]"): return f"M/S. {name}"; return name"
        businessResult(m_s, name) == IF m_s THEN <<"M","/","S","."," ">> \o name ELSE name
        \* p: the first business pattern that matches line (0: none)
        businessFrom(p) ==
            IF p = 0 THEN None
            ELSE PyStr(businessResult(business[p][4], clean_name(
                     SearchGroups(business[p][1], business[p][2],
                                  business[p][3], line, FALSE).group1)))
        \* direct, biz: what the loops over name_patterns["direct_name"] and
        \* name_patterns["business"] return for the line, None when a loop
        \* returns nothing
        priorityResult(direct, biz) ==
            IF direct # None THEN direct.v
            ELSE IF biz # None THEN biz.v
            ELSE <<>>
    IN  priorityResult(
            DirectName(line),
            businessFrom(FirstTrue([p \in 1..Len(business) |->
                SearchGroups(business[p][1], business[p][2],
                             business[p][3], line, FALSE) # None] \o <<>>)))

\* extract_name_from_fallback: "if any(word in line_lower for word in
\* self.excluded_words): continue"
HasExcludedWord(line) ==
    \E word \in { <<"a","d","d","r","e","s","s">>, <<"b","r","a","n","c","h">>, <<"a","c","c","o","u","n","t">>, <<"c","u","s","t","o","m","e","r">>, <<"d","e","t","a","i","l","s">>,
                  <<"s","t","a","t","e","m","e","n","t">>, <<"b","a","n","k">>, <<"i","f","s","c">>, <<"m","o","b","i","l","e">>, <<"e","m","a","i","l">> } :
        Contains(lower(line), word)

\* "if any(indicator in line_lower for indicator in self.name_indicators)"
HasIndicator(line) ==
    \E indicator \in { <<"m","r">>, <<"m","r","s">>, <<"m","s">>, <<"d","r">>, <<"s","h","r","i">>, <<"s","m","t">>, <<"m","/","s">>,
                       <<"m","i","s","s">>, <<"k","u","m","a","r">>, <<"k","u","m","a","r","i">>, <<"s","r","i">> } :
        Contains(lower(line), indicator)

\* the name extract_name_from_fallback makes of a line with an indicator
FallbackName(line) ==
    LET numbers_and_punctuation ==
    [k |-> "set", cs |-> DIGIT \cup {"(", ")", ",", ".", ":", "/", "-"}, neg |-> FALSE]
    IN  clean_name(Sub(numbers_and_punctuation, <<>>, strip(line), FALSE))

(***************************************************************************)
(* PDFNameExtractor.analyze_pdf: one action per way through the bodies of   *)
(* its loop over lines[:10] and of the loop of extract_name_from_fallback.  *)
(* Until the text is cut into lines, the variable lines holds              *)
(* text.split("\n").                                                        *)
(***************************************************************************)
MaxExtractorLines == 2

\* the 10 of "lines[:10]"
first_lines == 10

InitNameExtractor ==
    LET ExtractorTexts ==
            { <<>>, <<"M","/","S","."," ","A","B","C"," ","T","R","A","D","E","R","S">>, <<"N","a","m","e",":"," ","J","O","H","N"," ","S","M","I","T","H">>,
              <<" ","A","B","C"," ","P","R","I","V","A","T","E"," ","L","I","M","I","T","E","D"," ">>, <<"H","D","F","C"," ","B","A","N","K">>, <<"M","r","."," ","R","a","j","e","s","h"," ","S","h","a","h">>, <<"1","2","3","4","5">> }
        \* n lines without a name before the lines that follow
        Padding(n) == [k \in 1..n |-> <<"H","D","F","C"," ","B","A","N","K">>]
    IN  /\ \E n \in {0, first_lines - 1} :
           \E ls \in SeqsUpTo(ExtractorTexts, MaxExtractorLines) :
               lines = IF ls = <<>> THEN << <<>> >> ELSE Padding(n) \o ls
        /\ pc = "extract_text"
        /\ pos = 1
        /\ Idle("analyze_pdf")

\* "if not text: ... return"
NoTextExtracted ==
    /\ pc = "extract_text"
    /\ JoinWith(<<"\n">>, lines) = <<>>
    /\ pc' = "extractor_done"
    /\ UNCHANGED <<lines, pos, extractorVars, nameVars, stage0Vars, reportVars, addressVars,
                   analyzeVars, detectorVars>>

\* "lines = [line.strip() for line in text.split("\n") if line.strip()]"
\* and "extracted_name = """
StripLines ==
    /\ pc = "extract_text"
    /\ JoinWith(<<"\n">>, lines) # <<>>
    /\ lines' = SelectSeq([k \in 1..Len(lines) |-> strip(lines[k])] \o <<>>,
                          LAMBDA l : l # <<>>)
    /\ extracted_name' = <<>>
    /\ pos' = 1
    /\ pc' = "priority"
    /\ UNCHANGED <<nameVars, stage0Vars, reportVars, addressVars,
                   analyzeVars, detectorVars>>

\* the loop over lines[:10], "if extracted_name: break" not taken
PriorityNext ==
    /\ pc = "priority"
    /\ pos <= Len(lines) /\ pos <= first_lines
    /\ extract_name_from_priority_patterns(lines[pos]) = <<>>
    /\ extracted_name' = <<>>
    /\ pos' = pos + 1
    /\ UNCHANGED <<pc, lines, nameVars, stage0Vars, reportVars, addressVars,
                   analyzeVars, detectorVars>>

\* the loop over lines[:10], "if extracted_name: break"
PriorityBreak ==
    /\ pc = "priority"
    /\ pos <= Len(lines) /\ pos <= first_lines
    /\ extract_name_from_priority_patterns(lines[pos]) # <<>>
    /\ extracted_name' = extract_name_from_priority_patterns(lines[pos])
    /\ pc' = "extractor_done"
    /\ UNCHANGED <<lines, pos, nameVars, stage0Vars, reportVars, addressVars,
                   analyzeVars, detectorVars>>

\* the loop over lines[:10] ends without a name:
\* "if not extracted_name: ... extract_name_from_fallback(lines[:10])"
PriorityEnd ==
    /\ pc = "priority"
    /\ pos > Len(lines) \/ pos > first_lines
    /\ pc' = "fallback"
    /\ pos' = 1
    /\ UNCHANGED <<lines, extractorVars, nameVars, stage0Vars, reportVars, addressVars,
                   analyzeVars, detectorVars>>

\* extract_name_from_fallback, "continue"
FallbackExcluded ==
    /\ pc = "fallback"
    /\ pos <= Len(lines) /\ pos <= first_lines
    /\ HasExcludedWord(lines[pos])
    /\ pos' = pos + 1
    /\ UNCHANGED <<pc, lines, extractorVars, nameVars, stage0Vars, reportVars, addressVars,
                   analyzeVars, detectorVars>>

\* extract_name_from_fallback, a line without a name indicator, or one that
\* cleans to the empty string
FallbackNext ==
    /\ pc = "fallback"
    /\ pos <= Len(lines) /\ pos <= first_lines
    /\ ~HasExcludedWord(lines[pos])
    /\ ~HasIndicator(lines[pos]) \/ FallbackName(lines[pos]) = <<>>
    /\ pos' = pos + 1
    /\ UNCHANGED <<pc, lines, extractorVars, nameVars, stage0Vars, reportVars, addressVars,
                   analyzeVars, detectorVars>>

\* extract_name_from_fallback, "if name: return name"
FallbackReturn ==
    /\ pc = "fallback"
    /\ pos <= Len(lines) /\ pos <= first_lines
    /\ ~HasExcludedWord(lines[pos])
    /\ HasIndicator(lines[pos])
    /\ FallbackName(lines[pos]) # <<>>
    /\ extracted_name' = FallbackName(lines[pos])
    /\ pc' = "extractor_done"
    /\ UNCHANGED <<lines, pos, nameVars, stage0Vars, reportVars, addressVars,
                   analyzeVars, detectorVars>>

\* extract_name_from_fallback, "return """ after the loop
FallbackEnd ==
    /\ pc = "fallback"
    /\ pos > Len(lines) \/ pos > first_lines
    /\ extracted_name' = <<>>
    /\ pc' = "extractor_done"
    /\ UNCHANGED <<lines, pos, nameVars, stage0Vars, reportVars, addressVars,
                   analyzeVars, detectorVars>>

SpecNameExtractor ==
    InitNameExtractor
    /\ [][\/ NoTextExtracted
          \/ StripLines
          \/ PriorityNext
          \/ PriorityBreak
          \/ PriorityEnd
          \/ FallbackExcluded
          \/ FallbackNext
          \/ FallbackReturn
          \/ FallbackEnd]_vars

\* C7: when analyze_pdf has finished on a text of which one of the first 10
\* lines matches a direct_name pattern, the extracted name is the name a
\* direct_name pattern gives for one of these lines, also when an earlier
\* line matches a business pattern only.
C7_DirectBeforeBusiness ==
    pc = "extractor_done" =>
        \/ \A k \in 1..Len(lines) : k <= first_lines => DirectName(lines[k]) = None
        \/ \E k \in 1..Len(lines) :
               /\ k <= first_lines
               /\ DirectName(lines[k]) # None
               /\ extracted_name = DirectName(lines[k]).v

(***************************************************************************)
(* pdf_header_analyzer.py: address lines                                    *)
(***************************************************************************)
\* "any(trigger in line_lower for trigger in self.address_triggers)"
is_address_trigger(line) ==
    LET address_triggers ==
        {
          <<"a","d","d","r","e","s","s">>, <<"c","o","m","m","u","n","i","c","a","t","i","o","n"," ","a","d","d","r","e","s","s">>,
          <<"b","r","a","n","c","h"," ","a","d","d","r","e","s","s">>, <<"a","d","d","r","e","s","s"," ","l","i","n","e"," ","1">>,
          <<"a","d","d","r","e","s","s"," ","l","i","n","e"," ","2">>, <<"a","d","d","r","e","s","s"," ","l","i","n","e"," ","3">>,
          <<"r","e","g","i","s","t","e","r","e","d"," ","a","d","d","r","e","s","s">>, <<"c","o","r","r","e","s","p","o","n","d","e","n","c","e"," ","a","d","d","r","e","s","s">>,
          <<"c","u","s","t","o","m","e","r"," ","a","d","d","r","e","s","s">>, <<"a","d","d","r","e","s","s"," ","o","f"," ","c","u","s","t","o","m","e","r">> }
    IN
    \E trigger \in address_triggers : Contains(strip(lower(line)), trigger)

is_address_line(line) ==
    LET address_line_patterns ==
        <<
    [k |-> "cat", xs |-> <<[k |-> "rep", x |-> [k |-> "set", cs |-> {"\n"}, neg |-> TRUE], lo |-> 0, hi |-> 0, open |-> TRUE, lazy |-> FALSE], [k |-> "alt", xs |-> <<[k |-> "lit", s |-> <<"m","u","m","b","a","i">>], [k |-> "lit", s |-> <<"t","h","a","n","e">>], [k |-> "lit", s |-> <<"p","u","n","e">>], [k |-> "lit", s |-> <<"d","e","l","h","i">>], [k |-> "lit", s |-> <<"b","a","n","g","a","l","o","r","e">>]>>], [k |-> "rep", x |-> [k |-> "set", cs |-> {"\n"}, neg |-> TRUE], lo |-> 0, hi |-> 0, open |-> TRUE, lazy |-> FALSE], [k |-> "rep", x |-> [k |-> "set", cs |-> DIGIT, neg |-> FALSE], lo |-> 6, hi |-> 6, open |-> FALSE, lazy |-> FALSE]>>]
        ,
    [k |-> "cat", xs |-> <<[k |-> "rep", x |-> [k |-> "set", cs |-> {"\n"}, neg |-> TRUE], lo |-> 0, hi |-> 0, open |-> TRUE, lazy |-> FALSE], [k |-> "alt", xs |-> <<[k |-> "lit", s |-> <<"m","a","h","a","r","a","s","h","t","r","a">>], [k |-> "lit", s |-> <<"g","u","j","a","r","a","t">>], [k |-> "lit", s |-> <<"d","e","l","h","i">>], [k |-> "lit", s |-> <<"k","a","r","n","a","t","a","k","a">>]>>], [k |-> "rep", x |-> [k |-> "set", cs |-> {"\n"}, neg |-> TRUE], lo |-> 0, hi |-> 0, open |-> TRUE, lazy |-> FALSE], [k |-> "alt", xs |-> <<[k |-> "lit", s |-> <<"-">>], [k |-> "lit", s |-> <<",">>], [k |-> "rep", x |-> [k |-> "set", cs |-> SPACE, neg |-> FALSE], lo |-> 1, hi |-> 1, open |-> TRUE, lazy |-> FALSE]>>], [k |-> "lit", s |-> <<"i","n","d","i","a">>]>>]
        ,
    [k |-> "cat", xs |-> <<[k |-> "rep", x |-> [k |-> "set", cs |-> {"\n"}, neg |-> TRUE], lo |-> 0, hi |-> 0, open |-> TRUE, lazy |-> FALSE], [k |-> "wb"], [k |-> "alt", xs |-> <<[k |-> "lit", s |-> <<"r","o","o","m">>], [k |-> "lit", s |-> <<"f","l","a","t">>], [k |-> "lit", s |-> <<"s","h","o","p">>]>>], [k |-> "rep", x |-> [k |-> "set", cs |-> SPACE, neg |-> FALSE], lo |-> 0, hi |-> 0, open |-> TRUE, lazy |-> FALSE], [k |-> "lit", s |-> <<"n","o">>], [k |-> "wb"], [k |-> "rep", x |-> [k |-> "set", cs |-> {"\n"}, neg |-> TRUE], lo |-> 0, hi |-> 0, open |-> TRUE, lazy |-> FALSE]>>]
        ,
    [k |-> "cat", xs |-> <<[k |-> "rep", x |-> [k |-> "set", cs |-> {"\n"}, neg |-> TRUE], lo |-> 0, hi |-> 0, open |-> TRUE, lazy |-> FALSE], [k |-> "wb"], [k |-> "alt", xs |-> <<[k |-> "lit", s |-> <<"n","e","a","r">>], [k |-> "lit", s |-> <<"o","p","p">>], [k |-> "lit", s |-> <<"b","e","h","i","n","d">>]>>], [k |-> "wb"], [k |-> "rep", x |-> [k |-> "set", cs |-> {"\n"}, neg |-> TRUE], lo |-> 0, hi |-> 0, open |-> TRUE, lazy |-> FALSE]>>]
        ,
    [k |-> "cat", xs |-> <<[k |-> "rep", x |-> [k |-> "set", cs |-> {"\n"}, neg |-> TRUE], lo |-> 0, hi |-> 0, open |-> TRUE, lazy |-> FALSE], [k |-> "wb"], [k |-> "alt", xs |-> <<[k |-> "lit", s |-> <<"r","o","a","d">>], [k |-> "lit", s |-> <<"s","t","r","e","e","t">>], [k |-> "lit", s |-> <<"l","a","n","e">>], [k |-> "lit", s |-> <<"n","a","g","a","r">>]>>], [k |-> "wb"], [k |-> "rep", x |-> [k |-> "set", cs |-> {"\n"}, neg |-> TRUE], lo |-> 0, hi |-> 0, open |-> TRUE, lazy |-> FALSE], [k |-> "rep", x |-> [k |-> "set", cs |-> DIGIT, neg |-> FALSE], lo |-> 6, hi |-> 6, open |-> FALSE, lazy |-> FALSE]>>]
        ,
    [k |-> "cat", xs |-> <<[k |-> "rep", x |-> [k |-> "set", cs |-> {"\n"}, neg |-> TRUE], lo |-> 0, hi |-> 0, open |-> TRUE, lazy |-> FALSE], [k |-> "wb"], [k |-> "alt", xs |-> <<[k |-> "lit", s |-> <<"b","r","a","n","c","h">>], [k |-> "lit", s |-> <<"c","o","m","m","u","n","i","c","a","t","i","o","n">>]>>], [k |-> "rep", x |-> [k |-> "set", cs |-> SPACE, neg |-> FALSE], lo |-> 0, hi |-> 0, open |-> TRUE, lazy |-> FALSE], [k |-> "lit", s |-> <<"a","d","d","r","e","s","s">>], [k |-> "wb"], [k |-> "rep", x |-> [k |-> "set", cs |-> {"\n"}, neg |-> TRUE], lo |-> 0, hi |-> 0, open |-> TRUE, lazy |-> FALSE]>>]
        >>
    IN
    LET address_content_markers ==
        <<
    [k |-> "cat", xs |-> <<[k |-> "wb"], [k |-> "alt", xs |-> <<[k |-> "lit", s |-> <<"f","l","a","t">>], [k |-> "lit", s |-> <<"r","o","o","m">>], [k |-> "lit", s |-> <<"s","h","o","p">>], [k |-> "lit", s |-> <<"g","a","l","a">>], [k |-> "lit", s |-> <<"p","l","o","t">>]>>], [k |-> "rep", x |-> [k |-> "set", cs |-> SPACE, neg |-> FALSE], lo |-> 0, hi |-> 0, open |-> TRUE, lazy |-> FALSE], [k |-> "rep", x |-> [k |-> "cat", xs |-> <<[k |-> "lit", s |-> <<"n">>], [k |-> "alt", xs |-> <<[k |-> "lit", s |-> <<"o">>], [k |-> "lit", s |-> <<"u","m","b","e","r">>]>>]>>], lo |-> 0, hi |-> 1, open |-> FALSE, lazy |-> FALSE], [k |-> "rep", x |-> [k |-> "lit", s |-> <<".">>], lo |-> 0, hi |-> 1, open |-> FALSE, lazy |-> FALSE], [k |-> "rep", x |-> [k |-> "set", cs |-> SPACE, neg |-> FALSE], lo |-> 0, hi |-> 0, open |-> TRUE, lazy |-> FALSE], [k |-> "rep", x |-> [k |-> "set", cs |-> LOWER \cup DIGIT \cup {"/", "-"}, neg |-> FALSE], lo |-> 1, hi |-> 1, open |-> TRUE, lazy |-> FALSE]>>]
        ,
    [k |-> "cat", xs |-> <<[k |-> "wb"], [k |-> "alt", xs |-> <<[k |-> "lit", s |-> <<"f","l","o","o","r">>], [k |-> "lit", s |-> <<"g","r","o","u","n","d">>]>>], [k |-> "rep", x |-> [k |-> "set", cs |-> SPACE, neg |-> FALSE], lo |-> 0, hi |-> 0, open |-> TRUE, lazy |-> FALSE], [k |-> "rep", x |-> [k |-> "cat", xs |-> <<[k |-> "lit", s |-> <<"n">>], [k |-> "alt", xs |-> <<[k |-> "lit", s |-> <<"o">>], [k |-> "lit", s |-> <<"u","m","b","e","r">>]>>]>>], lo |-> 0, hi |-> 1, open |-> FALSE, lazy |-> FALSE], [k |-> "rep", x |-> [k |-> "lit", s |-> <<".">>], lo |-> 0, hi |-> 1, open |-> FALSE, lazy |-> FALSE], [k |-> "rep", x |-> [k |-> "set", cs |-> SPACE, neg |-> FALSE], lo |-> 0, hi |-> 0, open |-> TRUE, lazy |-> FALSE], [k |-> "rep", x |-> [k |-> "set", cs |-> LOWER \cup DIGIT \cup {"-"}, neg |-> FALSE], lo |-> 1, hi |-> 1, open |-> TRUE, lazy |-> FALSE]>>]
        ,
    [k |-> "cat", xs |-> <<[k |-> "wb"], [k |-> "alt", xs |-> <<[k |-> "lit", s |-> <<"b","u","i","l","d","i","n","g">>], [k |-> "lit", s |-> <<"b","l","d","g">>], [k |-> "lit", s |-> <<"t","o","w","e","r">>], [k |-> "lit", s |-> <<"w","i","n","g">>], [k |-> "lit", s |-> <<"c","o","m","p","l","e","x">>], [k |-> "lit", s |-> <<"p","l","a","z","a">>], [k |-> "lit", s |-> <<"a","r","c","a","d","e">>], [k |-> "lit", s |-> <<"c","h","a","w","l">>], [k |-> "lit", s |-> <<"s","o","c","i","e","t","y">>], [k |-> "lit", s |-> <<"c","h","s">>]>>], [k |-> "wb"]>>]
        ,
    [k |-> "cat", xs |-> <<[k |-> "wb"], [k |-> "alt", xs |-> <<[k |-> "lit", s |-> <<"s","e","c","t","o","r">>], [k |-> "lit", s |-> <<"p","h","a","s","e">>], [k |-> "lit", s |-> <<"b","l","o","c","k">>]>>], [k |-> "rep", x |-> [k |-> "set", cs |-> SPACE, neg |-> FALSE], lo |-> 0, hi |-> 0, open |-> TRUE, lazy |-> FALSE], [k |-> "rep", x |-> [k |-> "set", cs |-> {"-", ":"}, neg |-> FALSE], lo |-> 0, hi |-> 1, open |-> FALSE, lazy |-> FALSE], [k |-> "rep", x |-> [k |-> "set", cs |-> SPACE, neg |-> FALSE], lo |-> 0, hi |-> 0, open |-> TRUE, lazy |-> FALSE], [k |-> "rep", x |-> [k |-> "set", cs |-> LOWER \cup DIGIT, neg |-> FALSE], lo |-> 1, hi |-> 1, open |-> TRUE, lazy |-> FALSE]>>]
        ,
    [k |-> "cat", xs |-> <<[k |-> "wb"], [k |-> "alt", xs |-> <<[k |-> "lit", s |-> <<"n","e","a","r">>], [k |-> "lit", s |-> <<"o","p","p">>], [k |-> "lit", s |-> <<"o","p","p","o","s","i","t","e">>], [k |-> "lit", s |-> <<"b","e","h","i","n","d">>], [k |-> "lit", s |-> <<"b","e","s","i","d","e">>], [k |-> "lit", s |-> <<"n","e","x","t"," ","t","o">>]>>], [k |-> "wb"]>>]
        ,
    [k |-> "cat", xs |-> <<[k |-> "wb"], [k |-> "alt", xs |-> <<[k |-> "lit", s |-> <<"r","o","a","d">>], [k |-> "lit", s |-> <<"r","d">>], [k |-> "lit", s |-> <<"s","t","r","e","e","t">>], [k |-> "lit", s |-> <<"s","t">>], [k |-> "lit", s |-> <<"l","a","n","e">>], [k |-> "lit", s |-> <<"l","n">>], [k |-> "lit", s |-> <<"m","a","r","g">>], [k |-> "lit", s |-> <<"h","i","g","h","w","a","y">>]>>], [k |-> "wb"]>>]
        ,
    [k |-> "cat", xs |-> <<[k |-> "wb"], [k |-> "alt", xs |-> <<[k |-> "lit", s |-> <<"n","a","g","a","r">>], [k |-> "lit", s |-> <<"c","o","l","o","n","y">>], [k |-> "lit", s |-> <<"s","o","c","i","e","t","y">>], [k |-> "lit", s |-> <<"c","h","s">>], [k |-> "lit", s |-> <<"c","h","s","l">>], [k |-> "lit", s |-> <<"a","p","a","r","t","m","e","n","t">>], [k |-> "lit", s |-> <<"p","r","e","m","i","s","e","s">>]>>], [k |-> "wb"]>>]
        ,
    [k |-> "cat", xs |-> <<[k |-> "wb"], [k |-> "alt", xs |-> <<[k |-> "lit", s |-> <<"e","a","s","t">>], [k |-> "lit", s |-> <<"w","e","s","t">>], [k |-> "lit", s |-> <<"n","o","r","t","h">>], [k |-> "lit", s |-> <<"s","o","u","t","h">>], [k |-> "lit", s |-> <<"c","e","n","t","r","a","l">>]>>], [k |-> "rep", x |-> [k |-> "set", cs |-> SPACE, neg |-> FALSE], lo |-> 1, hi |-> 1, open |-> TRUE, lazy |-> FALSE], [k |-> "rep", x |-> [k |-> "set", cs |-> LOWER, neg |-> FALSE], lo |-> 1, hi |-> 1, open |-> TRUE, lazy |-> FALSE], [k |-> "wb"]>>]
        ,
    [k |-> "cat", xs |-> <<[k |-> "wb"], [k |-> "alt", xs |-> <<[k |-> "lit", s |-> <<"i","n","d","u","s","t","r","i","a","l">>], [k |-> "lit", s |-> <<"m","i","d","c">>], [k |-> "lit", s |-> <<"c","o","m","m","e","r","c","i","a","l">>], [k |-> "lit", s |-> <<"r","e","s","i","d","e","n","t","i","a","l">>]>>], [k |-> "rep", x |-> [k |-> "set", cs |-> SPACE, neg |-> FALSE], lo |-> 1, hi |-> 1, open |-> TRUE, lazy |-> FALSE], [k |-> "alt", xs |-> <<[k |-> "lit", s |-> <<"a","r","e","a">>], [k |-> "lit", s |-> <<"z","o","n","e">>], [k |-> "lit", s |-> <<"e","s","t","a","t","e">>]>>], [k |-> "wb"]>>]
        ,
    [k |-> "cat", xs |-> <<[k |-> "wb"], [k |-> "rep", x |-> [k |-> "set", cs |-> DIGIT, neg |-> FALSE], lo |-> 6, hi |-> 6, open |-> FALSE, lazy |-> FALSE], [k |-> "wb"]>>]
        ,
    [k |-> "cat", xs |-> <<[k |-> "wb"], [k |-> "lit", s |-> <<"p","i","n">>], [k |-> "rep", x |-> [k |-> "set", cs |-> SPACE, neg |-> FALSE], lo |-> 0, hi |-> 0, open |-> TRUE, lazy |-> FALSE], [k |-> "rep", x |-> [k |-> "lit", s |-> <<"c","o","d","e">>], lo |-> 0, hi |-> 1, open |-> FALSE, lazy |-> FALSE], [k |-> "rep", x |-> [k |-> "set", cs |-> {":", ".", "-"}, neg |-> FALSE], lo |-> 0, hi |-> 1, open |-> FALSE, lazy |-> FALSE], [k |-> "rep", x |-> [k |-> "set", cs |-> SPACE, neg |-> FALSE], lo |-> 0, hi |-> 0, open |-> TRUE, lazy |-> FALSE], [k |-> "rep", x |-> [k |-> "set", cs |-> DIGIT, neg |-> FALSE], lo |-> 6, hi |-> 6, open |-> FALSE, lazy |-> FALSE], [k |-> "wb"]>>]
        >>
    IN
    LET indian_states ==
        {
          <<"A","N","D","H","R","A"," ","P","R","A","D","E","S","H">>, <<"A","R","U","N","A","C","H","A","L"," ","P","R","A","D","E","S","H">>, <<"A","S","S","A","M">>,
          <<"B","I","H","A","R">>, <<"C","H","H","A","T","T","I","S","G","A","R","H">>, <<"G","O","A">>,
          <<"G","U","J","A","R","A","T">>, <<"H","A","R","Y","A","N","A">>, <<"H","I","M","A","C","H","A","L"," ","P","R","A","D","E","S","H">>,
          <<"J","H","A","R","K","H","A","N","D">>, <<"K","A","R","N","A","T","A","K","A">>, <<"K","E","R","A","L","A">>,
          <<"M","A","D","H","Y","A"," ","P","R","A","D","E","S","H">>, <<"M","A","H","A","R","A","S","H","T","R","A">>, <<"M","A","N","I","P","U","R">>,
          <<"M","E","G","H","A","L","A","Y","A">>, <<"M","I","Z","O","R","A","M">>, <<"N","A","G","A","L","A","N","D">>,
          <<"O","D","I","S","H","A">>, <<"P","U","N","J","A","B">>, <<"R","A","J","A","S","T","H","A","N">>,
          <<"S","I","K","K","I","M">>, <<"T","A","M","I","L"," ","N","A","D","U">>, <<"T","E","L","A","N","G","A","N","A">>,
          <<"T","R","I","P","U","R","A">>, <<"U","T","T","A","R"," ","P","R","A","D","E","S","H">>, <<"U","T","T","A","R","A","K","H","A","N","D">>,
          <<"W","E","S","T"," ","B","E","N","G","A","L">>, <<"D","E","L","H","I">>, <<"P","U","D","U","C","H","E","R","R","Y">>,
          <<"C","H","A","N","D","I","G","A","R","H">>, <<"A","N","D","A","M","A","N"," ","A","N","D"," ","N","I","C","O","B","A","R">>, <<"D","A","D","R","A"," ","A","N","D"," ","N","A","G","A","R"," ","H","A","V","E","L","I">>,
          <<"D","A","M","A","N"," ","A","N","D"," ","D","I","U">>, <<"J","A","M","M","U"," ","A","N","D"," ","K","A","S","H","M","I","R">>, <<"L","A","D","A","K","H">>,
          <<"L","A","K","S","H","A","D","W","E","E","P">> }
    IN
    LET city_and_state ==
    [k |-> "cat", xs |-> <<[k |-> "rep", x |-> [k |-> "set", cs |-> {"\n"}, neg |-> TRUE], lo |-> 0, hi |-> 0, open |-> TRUE, lazy |-> FALSE], [k |-> "alt", xs |-> <<[k |-> "lit", s |-> <<"m","u","m","b","a","i">>], [k |-> "lit", s |-> <<"t","h","a","n","e">>], [k |-> "lit", s |-> <<"p","u","n","e">>]>>], [k |-> "rep", x |-> [k |-> "set", cs |-> {"\n"}, neg |-> TRUE], lo |-> 0, hi |-> 0, open |-> TRUE, lazy |-> FALSE], [k |-> "alt", xs |-> <<[k |-> "lit", s |-> <<"m","a","h","a","r","a","s","h","t","r","a">>], [k |-> "lit", s |-> <<"g","u","j","a","r","a","t">>], [k |-> "lit", s |-> <<"d","e","l","h","i">>]>>]>>]
        pin_code ==
    [k |-> "cat", xs |-> <<[k |-> "wb"], [k |-> "rep", x |-> [k |-> "set", cs |-> DIGIT, neg |-> FALSE], lo |-> 6, hi |-> 6, open |-> FALSE, lazy |-> FALSE], [k |-> "wb"]>>]
        \* line0 is line.lower().strip()
        isAddressLine(line0) ==
            \/ \E state \in indian_states : Contains(line0, lower(state))
            \/ \E p \in 1..Len(address_content_markers) :
                   Found(address_content_markers[p], line0, FALSE)
            \/ \E p \in 1..Len(address_line_patterns) :
                   Found(address_line_patterns[p], line0, TRUE)
            \/ Found(city_and_state, line0, FALSE)
            \/ Found(pin_code, line0, FALSE)
    IN  isAddressLine(strip(lower(line)))

\* find_address_block, "if is_trigger or is_address:"
AddressLike(line) == is_address_trigger(line) \/ is_address_line(line)

(***************************************************************************)
(* header_detector.py: address lines                                        *)
(***************************************************************************)
\* header_detector.is_address_line
header_detector_is_address_line(line) ==
    LET address_indicators ==
        <<
    [k |-> "cat", xs |-> <<[k |-> "wb"], [k |-> "alt", xs |-> <<[k |-> "lit", s |-> <<"f","l","a","t">>], [k |-> "lit", s |-> <<"r","o","o","m">>], [k |-> "lit", s |-> <<"s","h","o","p">>]>>], [k |-> "rep", x |-> [k |-> "set", cs |-> SPACE, neg |-> FALSE], lo |-> 0, hi |-> 0, open |-> TRUE, lazy |-> FALSE], [k |-> "rep", x |-> [k |-> "cat", xs |-> <<[k |-> "lit", s |-> <<"n">>], [k |-> "alt", xs |-> <<[k |-> "lit", s |-> <<"o">>], [k |-> "lit", s |-> <<"u","m","b","e","r">>]>>]>>], lo |-> 0, hi |-> 1, open |-> FALSE, lazy |-> FALSE], [k |-> "rep", x |-> [k |-> "lit", s |-> <<".">>], lo |-> 0, hi |-> 1, open |-> FALSE, lazy |-> FALSE], [k |-> "rep", x |-> [k |-> "set", cs |-> SPACE, neg |-> FALSE], lo |-> 0, hi |-> 0, open |-> TRUE, lazy |-> FALSE], [k |-> "rep", x |-> [k |-> "set", cs |-> DIGIT, neg |-> FALSE], lo |-> 1, hi |-> 1, open |-> TRUE, lazy |-> FALSE]>>]
        ,
    [k |-> "cat", xs |-> <<[k |-> "wb"], [k |-> "alt", xs |-> <<[k |-> "lit", s |-> <<"f","l","o","o","r">>], [k |-> "lit", s |-> <<"g","r","o","u","n","d">>]>>], [k |-> "rep", x |-> [k |-> "set", cs |-> SPACE, neg |-> FALSE], lo |-> 0, hi |-> 0, open |-> TRUE, lazy |-> FALSE], [k |-> "rep", x |-> [k |-> "cat", xs |-> <<[k |-> "lit", s |-> <<"n">>], [k |-> "alt", xs |-> <<[k |-> "lit", s |-> <<"o">>], [k |-> "lit", s |-> <<"u","m","b","e","r">>]>>]>>], lo |-> 0, hi |-> 1, open |-> FALSE, lazy |-> FALSE], [k |-> "rep", x |-> [k |-> "lit", s |-> <<".">>], lo |-> 0, hi |-> 1, open |-> FALSE, lazy |-> FALSE], [k |-> "rep", x |-> [k |-> "set", cs |-> SPACE, neg |-> FALSE], lo |-> 0, hi |-> 0, open |-> TRUE, lazy |-> FALSE], [k |-> "rep", x |-> [k |-> "set", cs |-> DIGIT, neg |-> FALSE], lo |-> 1, hi |-> 1, open |-> TRUE, lazy |-> FALSE]>>]
        ,
    [k |-> "cat", xs |-> <<[k |-> "wb"], [k |-> "alt", xs |-> <<[k |-> "lit", s |-> <<"b","u","i","l","d","i","n","g">>], [k |-> "lit", s |-> <<"b","l","d","g">>], [k |-> "lit", s |-> <<"a","p","t">>], [k |-> "lit", s |-> <<"a","p","a","r","t","m","e","n","t">>], [k |-> "lit", s |-> <<"c","o","m","p","l","e","x">>]>>], [k |-> "wb"]>>]
        ,
    [k |-> "cat", xs |-> <<[k |-> "wb"], [k |-> "alt", xs |-> <<[k |-> "lit", s |-> <<"r","o","a","d">>], [k |-> "lit", s |-> <<"r","d">>], [k |-> "lit", s |-> <<"s","t","r","e","e","t">>], [k |-> "lit", s |-> <<"s","t">>], [k |-> "lit", s |-> <<"l","a","n","e">>], [k |-> "lit", s |-> <<"l","n">>], [k |-> "lit", s |-> <<"s","e","c","t","o","r">>], [k |-> "lit", s |-> <<"p","l","o","t">>], [k |-> "lit", s |-> <<"h","i","g","h","w","a","y">>], [k |-> "lit", s |-> <<"n","a","g","a","r">>], [k |-> "lit", s |-> <<"c","o","l","o","n","y">>], [k |-> "lit", s |-> <<"s","o","c","i","e","t","y">>], [k |-> "lit", s |-> <<"c","h","s">>], [k |-> "lit", s |-> <<"c","h","s","l">>]>>], [k |-> "wb"]>>]
        ,
    [k |-> "cat", xs |-> <<[k |-> "wb"], [k |-> "alt", xs |-> <<[k |-> "lit", s |-> <<"n","e","a","r">>], [k |-> "lit", s |-> <<"o","p","p">>], [k |-> "lit", s |-> <<"o","p","p","o","s","i","t","e">>], [k |-> "lit", s |-> <<"b","e","h","i","n","d">>], [k |-> "lit", s |-> <<"b","e","s","i","d","e">>], [k |-> "lit", s |-> <<"n","e","x","t"," ","t","o">>]>>], [k |-> "wb"]>>]
        ,
    [k |-> "cat", xs |-> <<[k |-> "wb"], [k |-> "alt", xs |-> <<[k |-> "lit", s |-> <<"v","i","l","l","a","g","e">>], [k |-> "lit", s |-> <<"t","o","w","n">>], [k |-> "lit", s |-> <<"c","i","t","y">>], [k |-> "lit", s |-> <<"d","i","s","t","r","i","c","t">>], [k |-> "lit", s |-> <<"t","a","l","u","k","a">>], [k |-> "lit", s |-> <<"t","e","h","s","i","l">>]>>], [k |-> "wb"]>>]
        ,
    [k |-> "cat", xs |-> <<[k |-> "wb"], [k |-> "alt", xs |-> <<[k |-> "lit", s |-> <<"m","a","h","a","r","a","s","h","t","r","a">>], [k |-> "lit", s |-> <<"g","u","j","a","r","a","t">>], [k |-> "lit", s |-> <<"d","e","l","h","i">>], [k |-> "lit", s |-> <<"m","u","m","b","a","i">>], [k |-> "lit", s |-> <<"t","h","a","n","e">>], [k |-> "lit", s |-> <<"i","n","d","i","a">>]>>], [k |-> "wb"]>>]
        ,
    [k |-> "cat", xs |-> <<[k |-> "wb"], [k |-> "alt", xs |-> <<[k |-> "lit", s |-> <<"e","a","s","t">>], [k |-> "lit", s |-> <<"w","e","s","t">>], [k |-> "lit", s |-> <<"n","o","r","t","h">>], [k |-> "lit", s |-> <<"s","o","u","t","h">>], [k |-> "lit", s |-> <<"c","e","n","t","r","a","l">>]>>], [k |-> "wb"]>>]
        ,
    [k |-> "cat", xs |-> <<[k |-> "rep", x |-> [k |-> "set", cs |-> DIGIT, neg |-> FALSE], lo |-> 1, hi |-> 1, open |-> TRUE, lazy |-> FALSE], [k |-> "rep", x |-> [k |-> "cat", xs |-> <<[k |-> "lit", s |-> <<"/">>], [k |-> "rep", x |-> [k |-> "set", cs |-> UPPER \cup LOWER \cup DIGIT \cup {"-"}, neg |-> FALSE], lo |-> 1, hi |-> 1, open |-> TRUE, lazy |-> FALSE]>>], lo |-> 1, hi |-> 1, open |-> TRUE, lazy |-> FALSE]>>]
        ,
    [k |-> "rep", x |-> [k |-> "set", cs |-> DIGIT, neg |-> FALSE], lo |-> 6, hi |-> 6, open |-> FALSE, lazy |-> FALSE]
        >>
    IN
    \E p \in 1..Len(address_indicators) :
        Found(address_indicators[p], lower(line), FALSE)

(***************************************************************************)
(* The address removers: PDFHeaderAnalyzer.remove_address_block with the    *)
(* loop of find_address_block, and remove_address_block of                  *)
(* header_detector.py, one action per way through the body of each loop.    *)
(* start_idx and end_idx count lines from 0 as the script does; pos counts  *)
(* from 1.                                                                  *)
(***************************************************************************)
MaxAddressLines == 3

C10Input ==
    << <<"F","L","A","T"," ","N","O"," ","1","2">>, <<"S","E","C","T","O","R"," ","5"," ","R","O","A","D">>, <<"M","U","M","B","A","I"," ","M","A","H","A","R","A","S","H","T","R","A"," ","4","0","0","0","0","1">>,
       <<"M","R"," ","R","A","J","E","S","H"," ","S","H","A","H">> >>

InitAddress ==
    /\ lines \in SeqsUpTo({ <<"F","L","A","T"," ","N","O"," ","1","2">>, <<"M","U","M","B","A","I"," ","M","A","H","A","R","A","S","H","T","R","A"," ","4","0","0","0","0","1">>,
                            <<"M","R"," ","R","A","J","E","S","H"," ","S","H","A","H">>, <<"C","o","m","m","u","n","i","c","a","t","i","o","n"," ","A","d","d","r","e","s","s">>,
                            <<"H","D","F","C"," ","B","A","N","K">> }, MaxAddressLines)
                \cup {C10Input,
                      \* a block, a name and a second run of address lines
                      << <<"F","L","A","T"," ","N","O"," ","1","2">>, <<"M","U","M","B","A","I"," ","M","A","H","A","R","A","S","H","T","R","A"," ","4","0","0","0","0","1">>,
                         <<"M","R"," ","R","A","J","E","S","H"," ","S","H","A","H">>, <<"F","L","A","T"," ","N","O"," ","1","2">>,
                         <<"M","U","M","B","A","I"," ","M","A","H","A","R","A","S","H","T","R","A"," ","4","0","0","0","0","1">> >>}
    /\ pc \in {"remove_address_block", "detector_remove_address_block"}
    /\ pos = 1
    /\ Idle("remove_address_block")

\* PDFHeaderAnalyzer.remove_address_block, "if not lines: return lines"
NoLines ==
    /\ pc = "remove_address_block"
    /\ lines = <<>>
    /\ kept_lines' = lines
    /\ pc' = "analyzer_done"
    /\ UNCHANGED <<lines, pos, start_idx, end_idx, in_address_block,
                   consecutive_address_lines, skip_mode, address_line_count, extractorVars, nameVars,
                   stage0Vars, reportVars,
                   analyzeVars, detectorVars>>

\* the call of find_address_block
FindAddressBlock ==
    /\ pc = "remove_address_block"
    /\ lines # <<>>
    /\ start_idx' = -1
    /\ end_idx' = -1
    /\ in_address_block' = FALSE
    /\ consecutive_address_lines' = 0
    /\ pos' = 1
    /\ pc' = "find_address_block"
    /\ UNCHANGED <<lines, kept_lines, skip_mode, address_line_count, extractorVars, nameVars,
                   stage0Vars, reportVars,
                   analyzeVars, detectorVars>>

\* "if is_trigger or is_address:"
AddressLine ==
    /\ pc = "find_address_block"
    /\ pos <= Len(lines)
    /\ AddressLike(lines[pos])
    /\ start_idx' = IF in_address_block THEN start_idx ELSE pos - 1
    /\ in_address_block' = TRUE
    /\ consecutive_address_lines' = consecutive_address_lines + 1
    /\ end_idx' = pos - 1
    /\ pos' = pos + 1
    /\ UNCHANGED <<pc, lines, kept_lines, skip_mode, address_line_count, extractorVars, nameVars,
                   stage0Vars, reportVars,
                   analyzeVars, detectorVars>>

\* a mutation of BlockEnds: the loop goes on after the block
BlockEndsContinues ==
    /\ pc = "find_address_block"
    /\ pos <= Len(lines)
    /\ ~AddressLike(lines[pos])
    /\ in_address_block
    /\ consecutive_address_lines >= 2
    /\ pos' = pos + 1
    /\ UNCHANGED <<pc, lines, start_idx, end_idx, in_address_block,
                   consecutive_address_lines, kept_lines, skip_mode, address_line_count, extractorVars,
                   nameVars, stage0Vars, reportVars,
                   analyzeVars, detectorVars>>

\* "else: if in_address_block: if consecutive_address_lines >= 2: break"
BlockEnds ==
    /\ pc = "find_address_block"
    /\ pos <= Len(lines)
    /\ ~AddressLike(lines[pos])
    /\ in_address_block
    /\ consecutive_address_lines >= 2
    /\ pc' = "found_address_block"
    /\ UNCHANGED <<lines, pos, start_idx, end_idx, in_address_block,
                   consecutive_address_lines, kept_lines, skip_mode, address_line_count, extractorVars,
                   nameVars, stage0Vars, reportVars,
                   analyzeVars, detectorVars>>

\* "else: start_idx = -1; end_idx = -1; in_address_block = False" and
\* "consecutive_address_lines = 0"
BlockDiscarded ==
    /\ pc = "find_address_block"
    /\ pos <= Len(lines)
    /\ ~AddressLike(lines[pos])
    /\ in_address_block
    /\ consecutive_address_lines < 2
    /\ start_idx' = -1
    /\ end_idx' = -1
    /\ in_address_block' = FALSE
    /\ consecutive_address_lines' = 0
    /\ pos' = pos + 1
    /\ UNCHANGED <<pc, lines, kept_lines, skip_mode, address_line_count, extractorVars, nameVars,
                   stage0Vars, reportVars,
                   analyzeVars, detectorVars>>

\* a line that is not an address line, outside a block:
\* "consecutive_address_lines = 0"
OtherLine ==
    /\ pc = "find_address_block"
    /\ pos <= Len(lines)
    /\ ~AddressLike(lines[pos])
    /\ ~in_address_block
    /\ consecutive_address_lines' = 0
    /\ pos' = pos + 1
    /\ UNCHANGED <<pc, lines, start_idx, end_idx, in_address_block, kept_lines,
                   skip_mode, address_line_count, extractorVars, nameVars, stage0Vars, reportVars,
                   analyzeVars, detectorVars>>

\* the loop ends at the last line: "return start_idx, end_idx"
LinesEnd ==
    /\ pc = "find_address_block"
    /\ pos > Len(lines)
    /\ pc' = "found_address_block"
    /\ UNCHANGED <<lines, pos, start_idx, end_idx, in_address_block,
                   consecutive_address_lines, kept_lines, skip_mode, address_line_count, extractorVars,
                   nameVars, stage0Vars, reportVars,
                   analyzeVars, detectorVars>>

\* the block is removed up to, but not with, its last line
RemoveBlockKeepsEnd ==
    /\ pc = "found_address_block"
    /\ start_idx # -1 /\ end_idx # -1
    /\ kept_lines' = SubSeq(lines, 1, start_idx) \o SubSeq(lines, end_idx + 1, Len(lines))
    /\ pc' = "analyzer_done"
    /\ UNCHANGED <<lines, pos, start_idx, end_idx, in_address_block,
                   consecutive_address_lines, skip_mode, address_line_count, extractorVars, nameVars,
                   stage0Vars, reportVars,
                   analyzeVars, detectorVars>>

\* "if start_idx != -1 and end_idx != -1:
\*      return lines[:start_idx] + lines[end_idx + 1 :]"
RemoveBlock ==
    /\ pc = "found_address_block"
    /\ start_idx # -1 /\ end_idx # -1
    /\ kept_lines' = SubSeq(lines, 1, start_idx) \o SubSeq(lines, end_idx + 2, Len(lines))
    /\ pc' = "analyzer_done"
    /\ UNCHANGED <<lines, pos, start_idx, end_idx, in_address_block,
                   consecutive_address_lines, skip_mode, address_line_count, extractorVars, nameVars,
                   stage0Vars, reportVars,
                   analyzeVars, detectorVars>>

\* no block: "return lines"
NoBlock ==
    /\ pc = "found_address_block"
    /\ start_idx = -1 \/ end_idx = -1
    /\ kept_lines' = lines
    /\ pc' = "analyzer_done"
    /\ UNCHANGED <<lines, pos, start_idx, end_idx, in_address_block,
                   consecutive_address_lines, skip_mode, address_line_count, extractorVars, nameVars,
                   stage0Vars, reportVars,
                   analyzeVars, detectorVars>>

\* header_detector.remove_address_block: an address line that is the first
\* of its run is neither counted as a block nor appended
DetectorFirstAddressLine ==
    /\ pc = "detector_remove_address_block"
    /\ pos <= Len(lines)
    /\ header_detector_is_address_line(lines[pos])
    /\ address_line_count + 1 < 2
    /\ address_line_count' = address_line_count + 1
    /\ pos' = pos + 1
    /\ UNCHANGED <<pc, lines, skip_mode, kept_lines, start_idx, end_idx, in_address_block,
                   consecutive_address_lines, extractorVars,
                   nameVars, stage0Vars, reportVars,
                   analyzeVars, detectorVars>>

\* "if address_line_count >= 2: skip_mode = True; continue"
DetectorSkip ==
    /\ pc = "detector_remove_address_block"
    /\ pos <= Len(lines)
    /\ header_detector_is_address_line(lines[pos])
    /\ address_line_count + 1 >= 2
    /\ address_line_count' = address_line_count + 1
    /\ skip_mode' = TRUE
    /\ pos' = pos + 1
    /\ UNCHANGED <<pc, lines, kept_lines, start_idx, end_idx, in_address_block,
                   consecutive_address_lines, extractorVars, nameVars,
                   stage0Vars, reportVars,
                   analyzeVars, detectorVars>>

\* "else: if skip_mode: address_line_count = 0; skip_mode = False" and
\* "cleaned_lines.append(line)"
DetectorBlockEnds ==
    /\ pc = "detector_remove_address_block"
    /\ pos <= Len(lines)
    /\ ~header_detector_is_address_line(lines[pos])
    /\ skip_mode
    /\ address_line_count' = 0
    /\ skip_mode' = FALSE
    /\ kept_lines' = Append(kept_lines, lines[pos])
    /\ pos' = pos + 1
    /\ UNCHANGED <<pc, lines, start_idx, end_idx, in_address_block,
                   consecutive_address_lines, extractorVars, nameVars, stage0Vars,
                   reportVars,
                   analyzeVars, detectorVars>>

\* "else: ... cleaned_lines.append(line)" outside skip mode
DetectorKeep ==
    /\ pc = "detector_remove_address_block"
    /\ pos <= Len(lines)
    /\ ~header_detector_is_address_line(lines[pos])
    /\ ~skip_mode
    /\ kept_lines' = Append(kept_lines, lines[pos])
    /\ pos' = pos + 1
    /\ UNCHANGED <<pc, lines, skip_mode, address_line_count, start_idx, end_idx, in_address_block,
                   consecutive_address_lines, extractorVars, nameVars,
                   stage0Vars, reportVars,
                   analyzeVars, detectorVars>>

\* "return cleaned_lines"
DetectorReturn ==
    /\ pc = "detector_remove_address_block"
    /\ pos > Len(lines)
    /\ pc' = "detector_done"
    /\ UNCHANGED <<lines, pos, kept_lines, skip_mode, address_line_count, start_idx, end_idx, in_address_block,
                   consecutive_address_lines, extractorVars,
                   nameVars, stage0Vars, reportVars,
                   analyzeVars, detectorVars>>

SpecAddress ==
    InitAddress
    /\ [][\/ NoLines
          \/ FindAddressBlock
          \/ AddressLine
          \/ BlockEnds
          \/ BlockDiscarded
          \/ OtherLine
          \/ LinesEnd
          \/ RemoveBlock
          \/ NoBlock
          \/ DetectorFirstAddressLine
          \/ DetectorSkip
          \/ DetectorBlockEnds
          \/ DetectorKeep
          \/ DetectorReturn]_vars

\* C9: once find_address_block has returned, a block (start, end) other
\* than (-1, -1) spans at least 2 lines; when no two neighbouring lines are
\* both address-like or triggers -- a single address-like last line
\* included -- the result is (-1, -1) and remove_address_block returns the
\* lines unchanged.
C9_BlockHasTwoLines ==
    \* some two neighbouring lines of ls are both address lines or triggers
    LET HasAddressRun(ls) ==
        \E k \in 1..(Len(ls) - 1) : AddressLike(ls[k]) /\ AddressLike(ls[k + 1])
    IN
    /\ pc \in {"found_address_block", "analyzer_done"} =>
          /\ <<start_idx, end_idx>> # <<-1, -1>> => end_idx - start_idx + 1 >= 2
          /\ ~HasAddressRun(lines) => <<start_idx, end_idx>> = <<-1, -1>>
    /\ pc = "analyzer_done" /\ ~HasAddressRun(lines) => kept_lines = lines

\* C10: for the lines 'FLAT NO 12', 'SECTOR 5 ROAD', 'MUMBAI MAHARASHTRA
\* 400001', 'MR RAJESH SHAH' each address remover returns exactly
\* ['MR RAJESH SHAH'].
C10_KeepsRajeshShah ==
    pc \in {"analyzer_done", "detector_done"} /\ lines = C10Input =>
        kept_lines = << <<"M","R"," ","R","A","J","E","S","H"," ","S","H","A","H">> >>

\* C10 witness: remove_address_block of PDFHeaderAnalyzer has found the
\* block of the first three lines of the input and returned the fourth
C10_Witness ==
    /\ pc = "analyzer_done"
    /\ lines = C10Input
    /\ <<start_idx, end_idx>> = <<0, 2>>
    /\ consecutive_address_lines = 3
    /\ kept_lines = SubSeq(lines, 4, 4)

\* C11: when remove_address_block of header_detector.py has returned and no
\* two neighbouring lines of its input are both address lines, it has
\* returned the input unchanged; so an address line alone between two other
\* lines is kept.
C11_NoRunReturnsInput ==
    pc = "detector_done"
    /\ (\A k \in 1..(Len(lines) - 1) :
            ~(/\ header_detector_is_address_line(lines[k])
              /\ header_detector_is_address_line(lines[k + 1])))
    => kept_lines = lines

(***************************************************************************)
(* header_detector.py: detect_header_section, one action per way through    *)
(* the body of its loop.  is_table_header (34-69) and is_transaction_line   *)
(* (71-93) of header_detector.py have the text of the methods of            *)
(* PDFHeaderAnalyzer and are the operators is_table_header and              *)
(* is_transaction_line above.  Until the text is cut into lines, the        *)
(* variable lines holds text.split('\n').                                   *)
(***************************************************************************)
is_likely_name_line(line) ==
    \E indicator \in { <<"N","A","M","E"," ","O","F"," ","C","U","S","T","O","M","E","R">>, <<"N","A","M","E"," ",":">>, <<"A","C","C","O","U","N","T"," ","N","A","M","E"," ",":">>,
                       <<"M","/","S",".">>, <<"M","/","S">>, <<"M","R",".">>, <<"M","R"," ">>, <<"M","S",".">>, <<"M","S"," ">> } :
        Contains(upper(strip(line)), indicator)

clean_name_line(line0) ==
    LET cut_terms ==
            << <<"B","R","A","N","C","H">>, <<"A","D","D","R","E","S","S">>, <<"P","H","O","N","E">>, <<"E","M","A","I","L">>, <<"A","C","C","O","U","N","T"," ","N","O">>,
               <<"C","U","S","T","O","M","E","R"," ","I","D">> >>
        prefixes ==
            << <<"N","A","M","E"," ","O","F"," ","C","U","S","T","O","M","E","R">>, <<"N","A","M","E",":">>, <<"A","C","C","O","U","N","T"," ","N","A","M","E"," ",":">>, <<"M","/","S",".">>,
               <<"M","/","S">>, <<"M","R",".">>, <<"M","R">>, <<"M","S",".">>, <<"M","S">> >>
        banking_terms ==
            { <<"B","A","N","K">>, <<"S","T","A","T","E","M","E","N","T">>, <<"A","C","C","O","U","N","T">>, <<"B","R","A","N","C","H">>, <<"I","F","S","C">>, <<"C","O","D","E">>,
              <<"P","E","R","I","O","D">> }
        \* line.split(term)[0]
        firstPiece(line, term, at) ==
            IF at = {} THEN line ELSE SubSeq(line, 1, SetMin(at) - 1)
        before(line, term) ==
            firstPiece(line, term,
                       {i \in 1..(Len(line) - Len(term) + 1) :
                           SubSeq(line, i, i + Len(term) - 1) = term})
        \* "if term in line.upper(): line = line.split(term)[0]"
        RECURSIVE cut(_, _)
        cut(n, line) ==
            IF n > Len(cut_terms) THEN line
            ELSE cut(n + 1, IF Contains(upper(line), cut_terms[n])
                            THEN before(line, cut_terms[n]) ELSE line)
        \* "if line.upper().startswith(prefix): line = line[len(prefix):].strip()"
        startswith(line, prefix) ==
            Len(prefix) <= Len(line) /\ SubSeq(line, 1, Len(prefix)) = prefix
        RECURSIVE unprefix(_, _)
        unprefix(n, line) ==
            IF n > Len(prefixes) THEN line
            ELSE unprefix(n + 1,
                          IF startswith(upper(line), prefixes[n])
                          THEN strip(SubSeq(line, Len(prefixes[n]) + 1, Len(line)))
                          ELSE line)
        \* str.isupper(): at least one cased character and no lower-case one
        isupper(word) ==
            /\ \E i \in 1..Len(word) : word[i] \in UPPER
            /\ \A i \in 1..Len(word) : word[i] \notin LOWER
    IN  JoinWith(<<" ">>,
                 SelectSeq(split(unprefix(1, cut(1, strip(line0)))),
                           LAMBDA word : isupper(word) /\ word \notin banking_terms))

clean_header_line(line) ==
    IF strip(line) = <<>> THEN <<>>
    ELSE IF is_table_header(line) \/ is_transaction_line(line) THEN <<>>
    ELSE IF is_likely_name_line(line) THEN clean_name_line(line)
    ELSE <<>>

\* remove_address_block of header_detector.py as a function of its argument
header_detector_remove_address_block(ls) ==
    LET RECURSIVE loop(_, _, _, _)
        loop(n, skip, count, cleaned_lines) ==
            IF n > Len(ls) THEN cleaned_lines
            ELSE IF header_detector_is_address_line(ls[n])
            THEN loop(n + 1, skip \/ count + 1 >= 2, count + 1, cleaned_lines)
            ELSE loop(n + 1, FALSE, IF skip THEN 0 ELSE count,
                      Append(cleaned_lines, ls[n]))
    IN  loop(1, FALSE, 0, <<>>)

MaxSectionLines == 3

InitHeaderSection ==
    /\ \E ls \in SeqsUpTo({ <<>>, <<"0","1","-","0","1","-","2","4"," ","N","E","F","T"," ","5","0","0",".","0","0">>, <<"D","a","t","e"," ","P","a","r","t","i","c","u","l","a","r","s">>,
                            <<" ","M","R"," ","R","A","J","E","S","H"," ","S","H","A","H">>, <<"M","R"," ","N","A","G","A","R"," ","R","O","A","D">>, <<"H","D","F","C"," ","B","A","N","K">>, <<"d","e","b","i","t"," ","d","e","b","i","t"," ","d","e","b","i","t">>,
                            <<"0","1",".","0","1",".","2","4"," ","N","E","F","T">> },
                          MaxSectionLines) :
           lines = IF ls = <<>> THEN << <<>> >> ELSE ls
    /\ pc = "detect_header_section"
    /\ pos = 1
    /\ Idle("detect_header_section")

\* "if not text: return [], []"
SectionNoText ==
    /\ pc = "detect_header_section"
    /\ JoinWith(<<"\n">>, lines) = <<>>
    /\ pc' = "section_done"
    /\ UNCHANGED <<lines, pos, stage0Vars, reportVars, nameVars, extractorVars,
                   addressVars,
                   analyzeVars, detectorVars>>

\* "lines = [line.strip() for line in text.split('\n') if line.strip()]"
SectionLines ==
    /\ pc = "detect_header_section"
    /\ JoinWith(<<"\n">>, lines) # <<>>
    /\ lines' = SelectSeq([k \in 1..Len(lines) |-> strip(lines[k])] \o <<>>,
                          LAMBDA l : l # <<>>)
    /\ pc' = "section_loop"
    /\ UNCHANGED <<pos, stage0Vars, reportVars, nameVars, extractorVars,
                   addressVars,
                   analyzeVars, detectorVars>>

\* "if table_started: table_lines.append(line); continue"
SectionTableLine ==
    /\ pc = "section_loop"
    /\ pos <= Len(lines)
    /\ table_started
    /\ table_lines' = Append(table_lines, lines[pos])
    /\ pos' = pos + 1
    /\ UNCHANGED <<pc, lines, header_lines, table_started, reportVars, nameVars,
                   extractorVars, addressVars,
                   analyzeVars, detectorVars>>

\* "if is_table_header(line) or (i > 0 and is_transaction_line(line)):"
\* (i counts from 0)
SectionTableStarts ==
    /\ pc = "section_loop"
    /\ pos <= Len(lines)
    /\ ~table_started
    /\ is_table_header(lines[pos]) \/ (pos - 1 > 0 /\ is_transaction_line(lines[pos]))
    /\ table_started' = TRUE
    /\ table_lines' = Append(table_lines, lines[pos])
    /\ pos' = pos + 1
    /\ UNCHANGED <<pc, lines, header_lines, reportVars, nameVars, extractorVars,
                   addressVars,
                   analyzeVars, detectorVars>>

\* "cleaned_line = clean_header_line(line); if cleaned_line:
\* header_lines.append(cleaned_line)"
SectionHeaderLine ==
    /\ pc = "section_loop"
    /\ pos <= Len(lines)
    /\ ~table_started
    /\ ~(is_table_header(lines[pos]) \/ (pos - 1 > 0 /\ is_transaction_line(lines[pos])))
    /\ header_lines' = IF clean_header_line(lines[pos]) # <<>>
                       THEN Append(header_lines, clean_header_line(lines[pos]))
                       ELSE header_lines
    /\ pos' = pos + 1
    /\ UNCHANGED <<pc, lines, table_lines, table_started, reportVars, nameVars,
                   extractorVars, addressVars,
                   analyzeVars, detectorVars>>

\* after the loop: "header_lines = remove_address_block(header_lines)" and
\* the return
SectionReturn ==
    /\ pc = "section_loop"
    /\ pos > Len(lines)
    /\ header_lines' = header_detector_remove_address_block(header_lines)
    /\ pc' = "section_done"
    /\ UNCHANGED <<lines, pos, table_lines, table_started, reportVars, nameVars,
                   extractorVars, addressVars,
                   analyzeVars, detectorVars>>

SpecHeaderSection ==
    InitHeaderSection
    /\ [][\/ SectionNoText
          \/ SectionLines
          \/ SectionTableLine
          \/ SectionTableStarts
          \/ SectionHeaderLine
          \/ SectionReturn]_vars

\* C12: when detect_header_section has returned, the first non-empty line
\* that is a table header or a transaction row -- the very first line
\* included -- and every line after it make up table_lines, and
\* header_lines comes from the lines before it alone.
C12_FirstMarkerIsBoundary ==
    pc = "section_done" =>
        \A b \in 1..Len(lines) :
            /\ is_table_header(lines[b]) \/ is_transaction_line(lines[b])
            /\ \A j \in 1..(b - 1) :
                   ~(is_table_header(lines[j]) \/ is_transaction_line(lines[j]))
            => /\ table_lines = SubSeq(lines, b, Len(lines))
               /\ header_lines = header_detector_remove_address_block(
                      SelectSeq([k \in 1..(b - 1) |-> clean_header_line(lines[k])] \o <<>>,
                                LAMBDA l : l # <<>>))

(***************************************************************************)
(* PDFHeaderAnalyzer.clean_header_content, one action per way through the   *)
(* body of its loop; kept_lines is its list cleaned_lines.                  *)
(***************************************************************************)
\* self.remove_patterns
remove_patterns ==
    <<
    [k |-> "cat", xs |-> <<[k |-> "rep", x |-> [k |-> "set", cs |-> DIGIT, neg |-> FALSE], lo |-> 1, hi |-> 1, open |-> TRUE, lazy |-> FALSE], [k |-> "set", cs |-> {"/", "-"}, neg |-> FALSE], [k |-> "rep", x |-> [k |-> "set", cs |-> DIGIT, neg |-> FALSE], lo |-> 1, hi |-> 1, open |-> TRUE, lazy |-> FALSE], [k |-> "set", cs |-> {"/", "-"}, neg |-> FALSE], [k |-> "rep", x |-> [k |-> "set", cs |-> DIGIT, neg |-> FALSE], lo |-> 1, hi |-> 1, open |-> TRUE, lazy |-> FALSE]>>]
    ,
    [k |-> "cat", xs |-> <<[k |-> "wb"], [k |-> "rep", x |-> [k |-> "set", cs |-> DIGIT, neg |-> FALSE], lo |-> 6, hi |-> 6, open |-> FALSE, lazy |-> FALSE], [k |-> "wb"]>>]
    ,
    [k |-> "cat", xs |-> <<[k |-> "wb"], [k |-> "rep", x |-> [k |-> "set", cs |-> DIGIT, neg |-> FALSE], lo |-> 10, hi |-> 10, open |-> TRUE, lazy |-> FALSE], [k |-> "wb"]>>]
    ,
    [k |-> "cat", xs |-> <<[k |-> "wb"], [k |-> "rep", x |-> [k |-> "set", cs |-> DIGIT, neg |-> FALSE], lo |-> 1, hi |-> 1, open |-> TRUE, lazy |-> FALSE], [k |-> "wb"]>>]
    ,
    [k |-> "cat", xs |-> <<[k |-> "wb"], [k |-> "rep", x |-> [k |-> "set", cs |-> UPPER \cup DIGIT, neg |-> FALSE], lo |-> 8, hi |-> 8, open |-> TRUE, lazy |-> FALSE], [k |-> "wb"]>>]
    ,
    [k |-> "cat", xs |-> <<[k |-> "wb"], [k |-> "rep", x |-> [k |-> "set", cs |-> UPPER, neg |-> FALSE], lo |-> 4, hi |-> 4, open |-> FALSE, lazy |-> FALSE], [k |-> "rep", x |-> [k |-> "set", cs |-> DIGIT, neg |-> FALSE], lo |-> 7, hi |-> 7, open |-> FALSE, lazy |-> FALSE], [k |-> "wb"]>>]
    ,
    [k |-> "cat", xs |-> <<[k |-> "lit", s |-> <<"b","r","a","n","c","h">>], [k |-> "rep", x |-> [k |-> "set", cs |-> {"\n"}, neg |-> TRUE], lo |-> 0, hi |-> 0, open |-> TRUE, lazy |-> FALSE], [k |-> "eol"]>>]
    ,
    [k |-> "cat", xs |-> <<[k |-> "lit", s |-> <<":">>], [k |-> "rep", x |-> [k |-> "set", cs |-> {":"}, neg |-> TRUE], lo |-> 0, hi |-> 0, open |-> TRUE, lazy |-> FALSE]>>]
    ,
    [k |-> "cat", xs |-> <<[k |-> "lit", s |-> <<"-">>], [k |-> "rep", x |-> [k |-> "set", cs |-> {"-"}, neg |-> TRUE], lo |-> 0, hi |-> 0, open |-> TRUE, lazy |-> FALSE]>>]
    ,
    [k |-> "set", cs |-> {"(", ")", ",", "."}, neg |-> FALSE]
    ,
    [k |-> "rep", x |-> [k |-> "set", cs |-> SPACE, neg |-> FALSE], lo |-> 1, hi |-> 1, open |-> TRUE, lazy |-> FALSE]
    >>

\* self.banned_words
banned_words ==
    { <<"a","c","c","o","u","n","t">>, <<"s","t","a","t","e","m","e","n","t">>, <<"d","a","t","e">>, <<"c","u","r","r","e","n","c","y">>, <<"t","y","p","e">>, <<"n","o">>,
      <<"n","u","m","b","e","r">>, <<"n","o","m","i","n","e","e">>, <<"r","e","g","i","s","t","e","r","e","d">>, <<"i","f","s","c">>, <<"m","i","c","r">>, <<"c","o","d","e">>,
      <<"p","h","o","n","e">>, <<"b","r","a","n","c","h">>, <<"b","a","s","e">>, <<"m","o","b","i","l","e">>, <<"e","m","a","i","l">>, <<"i","d">>, <<"c","i","f">>,
      <<"c","u","s","t","o","m","e","r">>, <<"p","e","r","i","o","d">>, <<"s","t","a","t","u","s">>, <<"a","c","t","i","v","e">>, <<"b","a","l","a","n","c","e">>, <<"i","n","r">>,
      <<"s","a","v","i","n","g","s">>, <<"c","u","r","r","e","n","t">>, <<"j","o","i","n","t">>, <<"h","o","l","d","e","r">>, <<"s","c","h","e","m","e">>, <<"b","a","n","k","i","n","g">>,
      <<"s","m","a","r","t">>, <<"d","e","t","a","i","l","s">>, <<"a","d","d","r","e","s","s">>, <<"g","s","t","i","n">>, <<"s","a","c">> }

\* "if len(re.findall(r"[0-9/-]", line)) > len(line) / 3: continue"
TooManyNumbers(line) ==
    3 * Cardinality({i \in 1..Len(line) : line[i] \in DIGIT \cup {"/", "-"}}) > Len(line)

\* a mutation of CleanedLine: the banned patterns are replaced by nothing
\* instead of a space
CleanedLineJoinsWords(line) ==
    LET RECURSIVE removed(_, _)
        removed(n, working_line) ==
            IF n > Len(remove_patterns) THEN working_line
            ELSE removed(n + 1, Sub(remove_patterns[n], <<>>, working_line, FALSE))
        cleaned_words(words) ==
            SelectSeq(words, LAMBDA word : lower(word) \notin banned_words)
        only_special_characters ==
    [k |-> "cat", xs |-> <<[k |-> "bol"], [k |-> "rep", x |-> [k |-> "set", cs |-> WORDCH, neg |-> TRUE], lo |-> 1, hi |-> 1, open |-> TRUE, lazy |-> FALSE], [k |-> "eol"]>>]
        checked(working_line) ==
            IF /\ strip(working_line) # <<>>
               /\ First(only_special_characters, strip(working_line), 1, FALSE) = 0
            THEN working_line
            ELSE <<>>
    IN  checked(JoinWith(<<" ">>,
                split(JoinWith(<<" ">>, cleaned_words(split(removed(1, line)))))))

\* the body of the loop after the two "continue": the line that is appended
\* to cleaned_lines, or the empty string when none is
CleanedLine(line) ==
    LET \* "for pattern in self.remove_patterns:
        \* working_line = re.sub(pattern, " ", working_line)"
        RECURSIVE removed(_, _)
        removed(n, working_line) ==
            IF n > Len(remove_patterns) THEN working_line
            ELSE removed(n + 1, Sub(remove_patterns[n], <<" ">>, working_line, FALSE))
        cleaned_words(words) ==
            SelectSeq(words, LAMBDA word : lower(word) \notin banned_words)
        \* r"^[\s\W]+$": white space is not a word character, so the class
        \* is \W
        only_special_characters ==
    [k |-> "cat", xs |-> <<[k |-> "bol"], [k |-> "rep", x |-> [k |-> "set", cs |-> WORDCH, neg |-> TRUE], lo |-> 1, hi |-> 1, open |-> TRUE, lazy |-> FALSE], [k |-> "eol"]>>]
        \* "if working_line.strip() and not re.match(...)"
        checked(working_line) ==
            IF /\ strip(working_line) # <<>>
               /\ First(only_special_characters, strip(working_line), 1, FALSE) = 0
            THEN working_line
            ELSE <<>>
    IN  checked(JoinWith(<<" ">>,
                split(JoinWith(<<" ">>, cleaned_words(split(removed(1, line)))))))

\* clean_header_content as a function of its argument
clean_header_content(ls) ==
    SelectSeq([k \in 1..Len(ls) |->
                  IF strip(ls[k]) = <<>> \/ TooManyNumbers(ls[k]) THEN <<>>
                  ELSE CleanedLine(ls[k])] \o <<>>,
              LAMBDA l : l # <<>>)

MaxCleanLines == 3

InitCleanHeader ==
    /\ lines \in SeqsUpTo({ <<" "," ">>, <<"M","R"," ","R","A","J","E","S","H"," ","S","H","A","H">>, <<"R","A","J","E","S","H","W","A","R","I"," ","S","H","A","H">>,
                            <<"A","C","C","O","U","N","T"," ","S","T","A","T","E","M","E","N","T">>, <<"A","B","1">>, <<"A","1","2">>, <<"A","/","C","-","1">>,
                            <<"N","a","m","e",":"," ","J","O","H","N"," ","1","2">> }, MaxCleanLines)
    /\ pc = "clean_header_content"
    /\ pos = 1
    /\ Idle("clean_header_content")

\* "if not line.strip(): continue"
CleanBlank ==
    /\ pc = "clean_header_content"
    /\ pos <= Len(lines)
    /\ strip(lines[pos]) = <<>>
    /\ pos' = pos + 1
    /\ UNCHANGED <<pc, lines, stage0Vars, reportVars, nameVars, extractorVars,
                   addressVars,
                   analyzeVars, detectorVars>>

\* the ratio check: "Skip lines with too many numbers"
CleanTooManyNumbers ==
    /\ pc = "clean_header_content"
    /\ pos <= Len(lines)
    /\ strip(lines[pos]) # <<>>
    /\ TooManyNumbers(lines[pos])
    /\ pos' = pos + 1
    /\ UNCHANGED <<pc, lines, stage0Vars, reportVars, nameVars, extractorVars,
                   addressVars,
                   analyzeVars, detectorVars>>

\* "cleaned_lines.append(working_line)"
CleanAppend ==
    /\ pc = "clean_header_content"
    /\ pos <= Len(lines)
    /\ strip(lines[pos]) # <<>>
    /\ ~TooManyNumbers(lines[pos])
    /\ CleanedLine(lines[pos]) # <<>>
    /\ kept_lines' = Append(kept_lines, CleanedLine(lines[pos]))
    /\ pos' = pos + 1
    /\ UNCHANGED <<pc, lines, start_idx, end_idx, in_address_block,
                   consecutive_address_lines, skip_mode, address_line_count,
                   stage0Vars, reportVars, nameVars, extractorVars,
                   analyzeVars, detectorVars>>

\* nothing, or special characters only, is left of the line
CleanNothingLeft ==
    /\ pc = "clean_header_content"
    /\ pos <= Len(lines)
    /\ strip(lines[pos]) # <<>>
    /\ ~TooManyNumbers(lines[pos])
    /\ CleanedLine(lines[pos]) = <<>>
    /\ pos' = pos + 1
    /\ UNCHANGED <<pc, lines, stage0Vars, reportVars, nameVars, extractorVars,
                   addressVars,
                   analyzeVars, detectorVars>>

\* "return cleaned_lines"
CleanReturn ==
    /\ pc = "clean_header_content"
    /\ pos > Len(lines)
    /\ pc' = "clean_done"
    /\ UNCHANGED <<lines, pos, stage0Vars, reportVars, nameVars, extractorVars,
                   addressVars,
                   analyzeVars, detectorVars>>

SpecCleanHeader ==
    InitCleanHeader
    /\ [][\/ CleanBlank
          \/ CleanTooManyNumbers
          \/ CleanAppend
          \/ CleanNothingLeft
          \/ CleanReturn]_vars

\* C13: in every step of the loop of clean_header_content at a line that is
\* not blank, the ratio check discards the line exactly when three times the
\* number of its digit characters exceeds its length; a line with a digit
\* fraction of exactly one third, or less, is not discarded by this check.
C13_DigitRatio ==
    [][pc = "clean_header_content" /\ pos <= Len(lines) /\ strip(lines[pos]) # <<>>
       => (CleanTooManyNumbers <=>
              3 * Cardinality({i \in 1..Len(lines[pos]) : lines[pos][i] \in DIGIT})
                  > Len(lines[pos]))]_vars

\* C14: when clean_header_content has returned for lines that are all-caps
\* name lines (capital letters and single spaces only), applying it to what
\* it returned gives the same list: same lines, same order, same words.
C14_Idempotent ==
    pc = "clean_done"
    /\ (\A k \in 1..Len(lines) :
            /\ lines[k] # <<>>
            /\ \A i \in 1..Len(lines[k]) : lines[k][i] \in UPPER \cup {" "})
    => clean_header_content(kept_lines) = kept_lines

\* two name lines, of which the first lost a word of eight letters
C14_Witness ==
    /\ pc = "clean_done"
    /\ lines = << <<"R","A","J","E","S","H","W","A","R","I"," ","S","H","A","H">>, <<"M","R"," ","R","A","J","E","S","H"," ","S","H","A","H">> >>
    /\ kept_lines = << <<"S","H","A","H">>, <<"M","R"," ","R","A","J","E","S","H"," ","S","H","A","H">> >>
    /\ clean_header_content(kept_lines) = kept_lines

(***************************************************************************)
(* pdf_header_analyzer.py: PDFHeaderAnalyzer.analyze_pdf_directory, with    *)
(* one action per stage of analyze_pdf.  pos is the index (from 1) of the   *)
(* file the loop of analyze_pdf_directory is at; a stage's text in the      *)
(* dictionary is "\n".join(current_output).  Writing the spreadsheet from   *)
(* the results is not modelled.                                             *)
(***************************************************************************)
\* extract_name_from_pattern(line): the pair (name, entity_type), ("", "")
\* when no title is followed by two words in capitals
extract_name_from_pattern(line) ==
    \* title_patterns of extract_name_from_pattern: the text of each pattern and
    \* its syntax tree
    LET title_patterns ==
        << [src |-> <<"\\","b","(","?",":","m","r","|","m","r","s","|","m","s","|","d","r",")","\\",".","?","\\","s","+">>, re |->
    [k |-> "cat", xs |-> <<[k |-> "wb"], [k |-> "alt", xs |-> <<[k |-> "lit", s |-> <<"m","r">>], [k |-> "lit", s |-> <<"m","r","s">>], [k |-> "lit", s |-> <<"m","s">>], [k |-> "lit", s |-> <<"d","r">>]>>], [k |-> "rep", x |-> [k |-> "lit", s |-> <<".">>], lo |-> 0, hi |-> 1, open |-> FALSE, lazy |-> FALSE], [k |-> "rep", x |-> [k |-> "set", cs |-> SPACE, neg |-> FALSE], lo |-> 1, hi |-> 1, open |-> TRUE, lazy |-> FALSE]>>]
           ],
           [src |-> <<"\\","b","m","/","s","\\",".","?","\\","s","+">>, re |->
    [k |-> "cat", xs |-> <<[k |-> "wb"], [k |-> "lit", s |-> <<"m","/","s">>], [k |-> "rep", x |-> [k |-> "lit", s |-> <<".">>], lo |-> 0, hi |-> 1, open |-> FALSE, lazy |-> FALSE], [k |-> "rep", x |-> [k |-> "set", cs |-> SPACE, neg |-> FALSE], lo |-> 1, hi |-> 1, open |-> TRUE, lazy |-> FALSE]>>]
           ],
           [src |-> <<"\\","b","s","h","r","i","\\","s","+">>, re |->
    [k |-> "cat", xs |-> <<[k |-> "wb"], [k |-> "lit", s |-> <<"s","h","r","i">>], [k |-> "rep", x |-> [k |-> "set", cs |-> SPACE, neg |-> FALSE], lo |-> 1, hi |-> 1, open |-> TRUE, lazy |-> FALSE]>>]
           ],
           [src |-> <<"\\","b","s","m","t","\\",".","?","\\","s","+">>, re |->
    [k |-> "cat", xs |-> <<[k |-> "wb"], [k |-> "lit", s |-> <<"s","m","t">>], [k |-> "rep", x |-> [k |-> "lit", s |-> <<".">>], lo |-> 0, hi |-> 1, open |-> FALSE, lazy |-> FALSE], [k |-> "rep", x |-> [k |-> "set", cs |-> SPACE, neg |-> FALSE], lo |-> 1, hi |-> 1, open |-> TRUE, lazy |-> FALSE]>>]
           ],
           [src |-> <<"\\","b","k","u","m","a","r","[","i","]","?","\\","s","+">>, re |->
    [k |-> "cat", xs |-> <<[k |-> "wb"], [k |-> "lit", s |-> <<"k","u","m","a","r">>], [k |-> "rep", x |-> [k |-> "lit", s |-> <<"i">>], lo |-> 0, hi |-> 1, open |-> FALSE, lazy |-> FALSE], [k |-> "rep", x |-> [k |-> "set", cs |-> SPACE, neg |-> FALSE], lo |-> 1, hi |-> 1, open |-> TRUE, lazy |-> FALSE]>>]
           ],
           [src |-> <<"\\","b","s","r","i","\\","s","+">>, re |->
    [k |-> "cat", xs |-> <<[k |-> "wb"], [k |-> "lit", s |-> <<"s","r","i">>], [k |-> "rep", x |-> [k |-> "set", cs |-> SPACE, neg |-> FALSE], lo |-> 1, hi |-> 1, open |-> TRUE, lazy |-> FALSE]>>]
           ],
           [src |-> <<"\\","b","m","i","s","s","\\","s","+">>, re |->
    [k |-> "cat", xs |-> <<[k |-> "wb"], [k |-> "lit", s |-> <<"m","i","s","s">>], [k |-> "rep", x |-> [k |-> "set", cs |-> SPACE, neg |-> FALSE], lo |-> 1, hi |-> 1, open |-> TRUE, lazy |-> FALSE]>>]
           ],
           [src |-> <<"\\","b","(","?",":","n","a","m","e","\\","s","+","o","f","\\","s","+","c","u","s","t","o","m","e","r","|","c","u","s","t","o","m","e","r","\\","s","+","n","a","m","e",")","[",":","\\","s","]","+">>, re |->
    [k |-> "cat", xs |-> <<[k |-> "wb"], [k |-> "alt", xs |-> <<[k |-> "cat", xs |-> <<[k |-> "lit", s |-> <<"n","a","m","e">>], [k |-> "rep", x |-> [k |-> "set", cs |-> SPACE, neg |-> FALSE], lo |-> 1, hi |-> 1, open |-> TRUE, lazy |-> FALSE], [k |-> "lit", s |-> <<"o","f">>], [k |-> "rep", x |-> [k |-> "set", cs |-> SPACE, neg |-> FALSE], lo |-> 1, hi |-> 1, open |-> TRUE, lazy |-> FALSE], [k |-> "lit", s |-> <<"c","u","s","t","o","m","e","r">>]>>], [k |-> "cat", xs |-> <<[k |-> "lit", s |-> <<"c","u","s","t","o","m","e","r">>], [k |-> "rep", x |-> [k |-> "set", cs |-> SPACE, neg |-> FALSE], lo |-> 1, hi |-> 1, open |-> TRUE, lazy |-> FALSE], [k |-> "lit", s |-> <<"n","a","m","e">>]>>]>>], [k |-> "rep", x |-> [k |-> "set", cs |-> SPACE \cup {":"}, neg |-> FALSE], lo |-> 1, hi |-> 1, open |-> TRUE, lazy |-> FALSE]>>]
           ] >>
    IN
    LET isupper(word) ==
            /\ \E c \in 1..Len(word) : word[c] \in UPPER
            /\ \A c \in 1..Len(word) : word[c] \notin LOWER
        capitalised ==
    [k |-> "cat", xs |-> <<[k |-> "bol"], [k |-> "set", cs |-> UPPER, neg |-> FALSE], [k |-> "rep", x |-> [k |-> "set", cs |-> UPPER \cup LOWER, neg |-> FALSE], lo |-> 0, hi |-> 0, open |-> TRUE, lazy |-> FALSE], [k |-> "eol"]>>]
        \* the test of the loop over the words after the title
        is_caps_word(pattern, word) ==
            IF \/ Contains(lower(pattern.src), <<"n","a","m","e"," ","o","f"," ","c","u","s","t","o","m","e","r">>)
               \/ Contains(lower(pattern.src), <<"c","u","s","t","o","m","e","r"," ","n","a","m","e">>)
            THEN First(capitalised, word, 1, FALSE) # 0 \/ isupper(word)
            ELSE isupper(word) /\ Len(word) > 1
        \* "for word in words: if ...: caps_words.append(word) else: break"
        taken(words, stop) ==
            IF stop = 0 THEN words ELSE SubSeq(words, 1, stop - 1)
        caps_words(pattern, words) ==
            taken(words, FirstTrue([w \in 1..Len(words) |->
                                       ~is_caps_word(pattern, words[w])] \o <<>>))
        named(title, caps) ==
            IF Len(caps) >= 2
            THEN << title \o <<" ">> \o JoinWith(<<" ">>, caps),
                    IF Contains(lower(title), <<"m","/","s">>) THEN <<"c","o","m","p","a","n","y">>
                    ELSE <<"i","n","d","i","v","i","d","u","a","l">> >>
            ELSE << <<>>, <<>> >>
        \* what the body of the loop over the patterns finds with one pattern
        with_match(pattern, match) ==
            IF match = NoMatch THEN << <<>>, <<>> >>
            ELSE named(strip(SubSeq(line, match.start, match.end - 1)),
                       caps_words(pattern,
                                  split(SubSeq(line, match.end, Len(line)))))
        pick(found, n) == IF n = 0 THEN << <<>>, <<>> >> ELSE found[n]
        first_name(found) ==
            pick(found, FirstTrue([p \in 1..Len(found) |-> found[p][1] # <<>>] \o <<>>))
    IN  first_name([p \in 1..Len(title_patterns) |->
                       with_match(title_patterns[p],
                                  Search(title_patterns[p].re, line, TRUE))] \o <<>>)

\* extract_text_from_pdf: the text of the pages, "" when reading raises
extract_text_from_pdf(pdf) ==
    IF pdf.fault = "reader" THEN <<>> ELSE pdf.text.v

MaxAnalyzed == 2

InitAnalyze ==
    LET FileNames == <<"a.pdf", "b.pdf", "c.pdf">>
        Pdfs ==
            { Readable(<<>>),
              [text |-> None, fault |-> "reader",
               message |-> <<"E","O","F"," ","m","a","r","k","e","r"," ","n","o","t"," ","f","o","u","n","d">>],
              Readable(<<"A","c","c","o","u","n","t"," ","S","t","a","t","e","m","e","n","t","\n"," ","M","R"," ","R","A","J","E","S","H"," ","S","H","A","H"," ","\n","D","a","t","e"," ","P","a","r","t","i","c","u","l","a","r","s">>),
              Readable(<<"H","D","F","C"," ","B","a","n","k","\n","F","L","A","T"," ","N","O"," ","1","2","\n","M","U","M","B","A","I"," ","4","0","0","0","0","1","\n","R","A","J"," ","&"," ","S","o","n","s","-","2">>),
              Readable(<<"C","u","s","t","o","m","e","r"," ","N","a","m","e",":"," ","A"," ","B","\n","M","/","S","."," ","A","B","C"," ","T","R","A","D","E","R","S"," ","L","T","D","\n","M","R"," ","X"," ","Y">>),
              Readable(<<"0","1","-","0","1","-","2","4"," ","N","E","F","T"," ","5","0","0",".","0","0","\n","M","R"," ","R","A","J","E","S","H"," ","S","H","A","H">>),
              Readable(<<"C","U","S","T","O","M","E","R"," ","N","A","M","E",":"," ","R","A","J"," ","S","H","A","H">>) }
    IN  /\ \E n \in 0..MaxAnalyzed :
              /\ pdf_files = SubSeq(FileNames, 1, n)
              /\ disk \in [{FileNames[k] : k \in 1..n} -> Pdfs]
        /\ pc = "analyze_pdf_directory"
        /\ pos = 1
        /\ lines = <<>>
        /\ extraction_results = <<>>
        /\ total_files = 0
        /\ successful_extractions = 0
        /\ partial_extractions = 0
        /\ failed_extractions = 0
        /\ summary = None
        /\ Idle("analyze_pdf_directory")

\* "if not pdfs: ... return"
AnalyzeNoPdfs ==
    /\ pc = "analyze_pdf_directory"
    /\ pdf_files = <<>>
    /\ pc' = "analyze_returned"
    /\ UNCHANGED <<lines, pos, stage0Vars, reportVars, nameVars, extractorVars,
                   addressVars, analyzeVars, detectorVars>>

\* analyze_pdf: "if not text: ... return None", and in the caller
\* "if result:" fails
AnalyzeNoText ==
    /\ pc = "analyze_pdf_directory"
    /\ pos <= Len(pdf_files)
    /\ extract_text_from_pdf(disk[pdf_files[pos]]) = <<>>
    /\ analysis' = None
    /\ pos' = pos + 1
    /\ UNCHANGED <<pc, lines, stage0Vars, reportVars, nameVars, extractorVars,
                   addressVars, stage1_lines, oneshot_name, oneshot_type,
                   number_cleaned_lines,
                   final_cleaned_lines, results,
                   detectorVars>>

\* analyze_pdf: the dictionary is created; stage 0 separates the header from
\* the table
AnalyzeStage0 ==
    LET digits == <<"0","1","2","3","4","5","6","7","8","9">>
        RECURSIVE str(_)
        str(n) == IF n < 10 THEN <<digits[n + 1]>>
                  ELSE str(n \div 10) \o <<digits[(n % 10) + 1]>>
        is_marker(line) == is_table_header(line) \/ is_transaction_line(line)
        \* the lines before the marker, and the message about the marker
        before(stripped, marker) ==
            IF marker = 0 THEN stripped ELSE SubSeq(stripped, 1, marker - 1)
        found(stripped, marker) ==
            IF marker = 0 THEN <<>>
            ELSE << <<"F","o","u","n","d"," ","t","a","b","l","e"," ","m","a","r","k","e","r",","," ","s","t","o","p","p","i","n","g"," ","h","e","a","d","e","r"," ","c","o","l","l","e","c","t","i","o","n",":"," ">>
                    \o stripped[marker] >>
        numbered(shown) ==
            [k \in 1..Len(shown) |-> str(k) \o <<"."," ">> \o shown[k]] \o <<>>
        current_output(marker_message, hl) ==
            << <<"S","T","A","G","E"," ","0",":"," ","S","E","P","A","R","A","T","I","N","G"," ","H","E","A","D","E","R"," ","F","R","O","M"," ","T","A","B","L","E">> >> \o marker_message
            \o << <<"\n","E","x","t","r","a","c","t","e","d"," ","H","e","a","d","e","r"," ","L","i","n","e","s",":">> >>
            \o numbered(SubSeq(hl, 1, IF Len(hl) < 10 THEN Len(hl) ELSE 10))
    IN  /\ pc = "analyze_pdf_directory"
        /\ pos <= Len(pdf_files)
        /\ extract_text_from_pdf(disk[pdf_files[pos]]) # <<>>
        /\ lines' = SplitOn(extract_text_from_pdf(disk[pdf_files[pos]]), "\n")
        /\ \E stripped \in {[k \in 1..Len(lines') |-> strip(lines'[k])] \o <<>>} :
           \E marker \in {FirstTrue([k \in 1..Len(stripped) |->
                             stripped[k] # <<>> /\ is_marker(stripped[k])] \o <<>>)} :
               /\ header_lines' = SelectSeq(before(stripped, marker),
                                            LAMBDA l : l # <<>>)
               /\ analysis' =
                      [filename |-> pdf_files[pos],
                       stage0 |-> JoinWith(<<"\n">>,
                                      current_output(found(stripped, marker),
                                                     header_lines')),
                       stage1 |-> <<>>, oneshot |-> <<>>, stage2 |-> <<>>,
                       stage3 |-> <<>>, stage4 |-> <<>>, final |-> <<>>]
        /\ pc' = "analyze_stage1"
        /\ UNCHANGED <<pos, table_lines, table_started, reportVars, nameVars,
                       extractorVars, addressVars, stage1_lines, oneshot_name, oneshot_type,
                       number_cleaned_lines, final_cleaned_lines, results,
                   detectorVars>>

\* stage 1: the guaranteed words are removed
AnalyzeStage1 ==
    \* self.guaranteed_remove_words
    LET guaranteed_remove_words ==
        { <<"S","T","A","T","E","M","E","N","T">>, <<"A","C","C","O","U","N","T">>, <<"C","U","R","R","E","N","C","Y">>, <<"I","N","R">>, <<"T","Y","P","E">>, <<"S","A","V","I","N","G","S">>,
          <<"N","O","M","I","N","E","E">>, <<"R","E","G","I","S","T","E","R","E","D">>, <<"I","F","S","C">>, <<"M","I","C","R">>, <<"C","O","D","E">>, <<"G","S","T","I","N">>, <<"N","A">>,
          <<"S","A","C">>, <<"S","U","M","M","A","R","Y">>, <<"U","N","Q">>, <<"S","R","L">>, <<"N","O">>, <<"I","D">>, <<"C","U","S","T","O","M","E","R">>,
          <<"B","R","A","N","C","H">>, <<"N","U","M","B","E","R">>, <<"A","/","C">>, <<"B","A","L","A","N","C","E">>, <<"C","L","O","S","I","N","G">>, <<"O","F">>, <<"T","O">>,
          <<"D","A","T","E">> }
    IN
    LET \* word.strip(".:/-")
        clean_word(word) ==
            LET keep == {c \in 1..Len(word) : word[c] \notin {".", ":", "/", "-"}}
            IN  IF keep = {} THEN <<>>
                ELSE SubSeq(word, SetMin(keep),
                            CHOOSE x \in keep : \A y \in keep : x >= y)
        removed(word) == upper(clean_word(word)) \in guaranteed_remove_words
        cleaned_words(line) == SelectSeq(split(line), LAMBDA word : ~removed(word))
        removing(words) ==
            [w \in 1..Len(words) |-> <<"R","e","m","o","v","i","n","g"," ","w","o","r","d",":"," ">> \o words[w]] \o <<>>
        cleaned_message(words) ==
            IF words = <<>> THEN <<>>
            ELSE << <<"C","l","e","a","n","e","d"," ","l","i","n","e",":"," ">> \o JoinWith(<<" ">>, words) >>
        RECURSIVE messages(_)
        messages(n) ==
            IF n > Len(header_lines) THEN <<>>
            ELSE removing(SelectSeq(split(header_lines[n]), removed))
                 \o cleaned_message(cleaned_words(header_lines[n]))
                 \o messages(n + 1)
    IN  /\ pc = "analyze_stage1"
        /\ stage1_lines' =
               SelectSeq([k \in 1..Len(header_lines) |->
                             JoinWith(<<" ">>, cleaned_words(header_lines[k]))] \o <<>>,
                         LAMBDA l : l # <<>>)
        /\ analysis' = [analysis EXCEPT !.stage1 =
               JoinWith(<<"\n">>,
                        << <<"\n","S","T","A","G","E"," ","1",":"," ","R","E","M","O","V","I","N","G"," ","G","U","A","R","A","N","T","E","E","D"," ","W","O","R","D","S">> >> \o messages(1))]
        /\ pc' = "analyze_oneshot"
        /\ UNCHANGED <<lines, pos, stage0Vars, reportVars, nameVars, extractorVars,
                       addressVars, oneshot_name, oneshot_type,
                   number_cleaned_lines,
                       final_cleaned_lines, results,
                   detectorVars>>

\* one-shot name detection: the loop over raw_lines ends at the first line
\* with a name
AnalyzeOneShot ==
    LET checking(line) == <<"\n","C","h","e","c","k","i","n","g"," ","l","i","n","e"," ","f","o","r"," ","t","i","t","l","e","s",":"," ">> \o line
        found_messages(line, named) ==
            << <<"F","o","u","n","d"," ","t","i","t","l","e",":"," ">> \o split(named[1])[1],
               <<"F","o","u","n","d"," ","n","a","m","e",":"," ">> \o named[1],
               <<"F","o","u","n","d"," ">> \o named[2] \o <<" ","n","a","m","e"," ","u","s","i","n","g"," ","o","n","e","-","s","h","o","t"," ","d","e","t","e","c","t","i","o","n",":">>,
               <<"F","u","l","l"," ","l","i","n","e",":"," ">> \o line,
               <<"E","x","t","r","a","c","t","e","d"," ","n","a","m","e",":"," ">> \o named[1] >>
        checked(last) ==
            [k \in 1..last |-> checking(stage1_lines[k])] \o <<>>
        current_output(names, first) ==
            IF first = 0 THEN checked(Len(stage1_lines))
            ELSE checked(first) \o found_messages(stage1_lines[first], names[first])
        \* name and type_ after the loop: those of the last call
        last_name(names, first) ==
            IF first # 0 THEN names[first][1]
            ELSE IF names = <<>> THEN oneshot_name
            ELSE <<>>
        last_type(names, first) ==
            IF first # 0 THEN names[first][2]
            ELSE IF names = <<>> THEN oneshot_type
            ELSE <<>>
    IN  /\ pc = "analyze_oneshot"
        /\ \E names \in {[k \in 1..Len(stage1_lines) |->
                            extract_name_from_pattern(stage1_lines[k])] \o <<>>} :
           \E first \in {FirstTrue([k \in 1..Len(names) |->
                                       names[k][1] # <<>>] \o <<>>)} :
               /\ oneshot_name' = last_name(names, first)
               /\ oneshot_type' = last_type(names, first)
               /\ analysis' = [analysis EXCEPT !.oneshot =
                      JoinWith(<<"\n">>,
                               << <<"\n","T","r","y","i","n","g"," ","O","N","E","-","S","H","O","T"," ","n","a","m","e"," ","d","e","t","e","c","t","i","o","n",":">> >>
                               \o current_output(names, first))]
        /\ pc' = "analyze_stage2"
        /\ UNCHANGED <<lines, pos, stage0Vars, reportVars, nameVars, extractorVars,
                       addressVars, stage1_lines, number_cleaned_lines,
                       final_cleaned_lines, results,
                   detectorVars>>

\* stage 2: the address block is found in raw_lines and removed
AnalyzeStage2 ==
    LET \* find_address_block: the state of its loop after the lines from n
        RECURSIVE find_address_block(_, _, _, _, _)
        find_address_block(n, start, end, in_block, consecutive) ==
            IF n > Len(stage1_lines) THEN <<start, end>>
            ELSE IF AddressLike(stage1_lines[n])
            THEN find_address_block(n + 1, IF in_block THEN start ELSE n - 1,
                                    n - 1, TRUE, consecutive + 1)
            ELSE IF in_block /\ consecutive >= 2 THEN <<start, end>>
            ELSE IF in_block THEN find_address_block(n + 1, -1, -1, FALSE, 0)
            ELSE find_address_block(n + 1, start, end, in_block, 0)
        removed_messages(start, end) ==
            << <<"A","d","d","r","e","s","s"," ","l","i","n","e","s"," ","b","e","i","n","g"," ","r","e","m","o","v","e","d",":">> >>
            \o [k \in 1..(end - start + 1) |->
                   <<"R","E","M","O","V","E","D",":"," ">> \o stage1_lines[start + k]]
        current_output(start, end) ==
            << <<"\n","S","T","A","G","E"," ","2",":"," ","A","D","D","R","E","S","S"," ","B","L","O","C","K"," ","D","E","T","E","C","T","I","O","N">>, <<"\n","D","e","t","e","c","t","e","d"," ","A","d","d","r","e","s","s"," ","B","l","o","c","k",":">> >>
            \o (IF start # -1 /\ end # -1 THEN removed_messages(start, end)
                ELSE << <<"N","o"," ","a","d","d","r","e","s","s"," ","b","l","o","c","k"," ","d","e","t","e","c","t","e","d">> >>)
    IN  /\ pc = "analyze_stage2"
        /\ \E block \in {find_address_block(1, -1, -1, FALSE, 0)} :
               /\ start_idx' = block[1]
               /\ end_idx' = block[2]
               /\ kept_lines' =
                      IF block[1] # -1 /\ block[2] # -1
                      THEN SubSeq(stage1_lines, 1, block[1])
                           \o SubSeq(stage1_lines, block[2] + 2, Len(stage1_lines))
                      ELSE stage1_lines
               /\ analysis' = [analysis EXCEPT !.stage2 =
                      JoinWith(<<"\n">>, current_output(block[1], block[2]))]
        /\ pc' = "analyze_stage3"
        /\ UNCHANGED <<lines, pos, stage0Vars, reportVars, nameVars, extractorVars,
                       in_address_block, consecutive_address_lines, skip_mode,
                       address_line_count, stage1_lines, oneshot_name, oneshot_type,
                       number_cleaned_lines, final_cleaned_lines, results,
                   detectorVars>>

\* stage 3: numbers and special characters are removed
AnalyzeStage3 ==
    LET numbers ==
    [k |-> "rep", x |-> [k |-> "set", cs |-> DIGIT, neg |-> FALSE], lo |-> 1, hi |-> 1, open |-> TRUE, lazy |-> FALSE]
        special_chars ==
    [k |-> "set", cs |-> WORDCH \cup SPACE, neg |-> TRUE]
        without_numbers(line) == Sub(numbers, <<>>, line, FALSE)
        without_special(line) == Sub(special_chars, <<>>, line, FALSE)
        changed(heading, original_line, cleaned) ==
            IF cleaned # original_line
            THEN << heading \o original_line \o <<" ","-",">"," ">> \o cleaned >>
            ELSE <<>>
        line_messages(line, cleaned) ==
            changed(<<"R","e","m","o","v","i","n","g"," ","n","u","m","b","e","r","s",":"," ">>, line, cleaned)
            \o changed(<<"R","e","m","o","v","i","n","g"," ","s","p","e","c","i","a","l"," ","c","h","a","r","s",":"," ">>, cleaned, without_special(cleaned))
        RECURSIVE messages(_)
        messages(n) ==
            IF n > Len(kept_lines) THEN <<>>
            ELSE line_messages(kept_lines[n], without_numbers(kept_lines[n]))
                 \o messages(n + 1)
    IN  /\ pc = "analyze_stage3"
        /\ number_cleaned_lines' =
               SelectSeq([k \in 1..Len(kept_lines) |->
                             without_special(without_numbers(kept_lines[k]))] \o <<>>,
                         LAMBDA cleaned : strip(cleaned) # <<>>)
        /\ analysis' = [analysis EXCEPT !.stage3 =
               JoinWith(<<"\n">>,
                        << <<"\n","S","T","A","G","E"," ","3",":"," ","R","E","M","O","V","I","N","G"," ","N","U","M","B","E","R","S"," ","A","N","D"," ","S","P","E","C","I","A","L"," ","C","H","A","R","A","C","T","E","R","S">> >>
                        \o messages(1))]
        /\ pc' = "analyze_stage4"
        /\ UNCHANGED <<lines, pos, stage0Vars, reportVars, nameVars, extractorVars,
                       addressVars, stage1_lines, oneshot_name, oneshot_type,
                   final_cleaned_lines,
                       results,
                   detectorVars>>

\* stage 4: the words that are not in capitals are removed
AnalyzeStage4 ==
    LET isupper(word) ==
            /\ \E c \in 1..Len(word) : word[c] \in UPPER
            /\ \A c \in 1..Len(word) : word[c] \notin LOWER
        removing(words) ==
            [w \in 1..Len(words) |-> <<"R","e","m","o","v","i","n","g"," ","n","o","n","-","u","p","p","e","r","c","a","s","e"," ","w","o","r","d",":"," ">> \o words[w]] \o <<>>
        RECURSIVE messages(_)
        messages(n) ==
            IF n > Len(number_cleaned_lines) THEN <<>>
            ELSE removing(SelectSeq(split(number_cleaned_lines[n]),
                                    LAMBDA word : ~isupper(word)))
                 \o messages(n + 1)
    IN  /\ pc = "analyze_stage4"
        /\ final_cleaned_lines' =
               SelectSeq([k \in 1..Len(number_cleaned_lines) |->
                             JoinWith(<<" ">>, SelectSeq(split(number_cleaned_lines[k]),
                                                      isupper))] \o <<>>,
                         LAMBDA l : l # <<>>)
        /\ analysis' = [analysis EXCEPT !.stage4 =
               JoinWith(<<"\n">>,
                        << <<"\n","S","T","A","G","E"," ","4",":"," ","R","E","M","O","V","I","N","G"," ","M","I","X","E","D"," ","C","A","S","E"," ","W","O","R","D","S">> >> \o messages(1))]
        /\ pc' = "analyze_final"
        /\ UNCHANGED <<lines, pos, stage0Vars, reportVars, nameVars, extractorVars,
                       addressVars, stage1_lines, oneshot_name, oneshot_type,
                   number_cleaned_lines,
                       results,
                   detectorVars>>

\* the final content; analyze_pdf returns the dictionary and the caller
\* appends it: "if result: results.append(result)"
AnalyzeFinal ==
    /\ pc = "analyze_final"
    /\ analysis' = [analysis EXCEPT !.final =
           JoinWith(<<"\n">>,
                    << <<"\n","F","I","N","A","L"," ","C","L","E","A","N","E","D"," ","C","O","N","T","E","N","T",":">> >>
                    \o (IF final_cleaned_lines # <<>> THEN final_cleaned_lines
                        ELSE << <<"N","o"," ","c","o","n","t","e","n","t"," ","r","e","m","a","i","n","e","d"," ","a","f","t","e","r"," ","c","l","e","a","n","i","n","g">> >>))]
    /\ results' = Append(results, analysis')
    /\ pos' = pos + 1
    /\ pc' = "analyze_pdf_directory"
    /\ UNCHANGED <<lines, stage0Vars, reportVars, nameVars, extractorVars,
                   addressVars, stage1_lines, oneshot_name, oneshot_type,
                   number_cleaned_lines,
                   final_cleaned_lines,
                   detectorVars>>

\* after the loop: "self.export_to_excel(results, pdf_dir)"
ExportToExcel ==
    /\ pc = "analyze_pdf_directory"
    /\ pdf_files # <<>>
    /\ pos > Len(pdf_files)
    /\ pc' = "exported"
    /\ UNCHANGED <<lines, pos, stage0Vars, reportVars, nameVars, extractorVars,
                   addressVars, analyzeVars, detectorVars>>

SpecAnalyze ==
    InitAnalyze
    /\ [][\/ AnalyzeNoPdfs
          \/ AnalyzeNoText
          \/ AnalyzeStage0
          \/ AnalyzeStage1
          \/ AnalyzeOneShot
          \/ AnalyzeStage2
          \/ AnalyzeStage3
          \/ AnalyzeStage4
          \/ AnalyzeFinal
          \/ ExportToExcel]_vars

\* C15: once one-shot detection has found a name in a line of a document,
\* the analysis of that document is over: the stages after it (address block
\* detection, removal of numbers and special characters, removal of words in
\* mixed case) are not evaluated, so their entries of the dictionary stay as
\* they were created.
C15_OneShotEndsAnalysis ==
    /\ pc \in {"analyze_stage2", "analyze_stage3", "analyze_stage4",
               "analyze_final", "analyze_pdf_directory", "exported"}
    /\ analysis # None
    /\ oneshot_name # <<>>
    => /\ analysis.stage2 = <<>>
       /\ analysis.stage3 = <<>>
       /\ analysis.stage4 = <<>>

\* C18: the results passed to export_to_excel hold exactly one entry for
\* every PDF file of the directory, in the order of the files, also for a
\* file whose text could not be read or is empty.
C18_OneEntryPerPdf ==
    pc = "exported" =>
        /\ Len(results) = Len(pdf_files)
        /\ \A k \in 1..Len(pdf_files) : results[k].filename = pdf_files[k]

(***************************************************************************)
(* header_data_filter.py: extract_account_number applied to the text with   *)
(* the given lines, one action per return statement.                        *)
(***************************************************************************)
MaxAccountLines == 2

InitAccount ==
    /\ lines \in SeqsUpTo({ <<"A","/","C"," ","N","O"," ","1","2","3","4","5","6","7","8","9","0","1">>, <<"A","c","c",":"," ","1","2","3","4","5","6","7","8","9","0">>,
                            <<"9","8","7","6","5","4","3","2","1","0">>, <<"D","A","T","E"," ","9","8","7","6","5","4","3","2","1","0","0">>,
                            <<"R","e","f"," ","5","5","5","5","5","5","5","5","5","5"," ","x">>, <<"1","2","3","4","5","6","7","8","9">>,
                            <<"A","c","c","o","u","n","t"," ","N","o">>, <<"M","R"," ","S","H","A","H">> }, MaxAccountLines)
    /\ pc = "extract_account_number"
    /\ pos = 1
    /\ Idle("extract_account_number")

\* a mutation of AccountPattern: the number is taken from the first line in
\* which any number is found, with a label or without
AccountPatternAfterLines ==
    LET first_of(found, n) == IF n = 0 THEN PyTuple(<<None, None>>) ELSE found[n]
        first_found(found) ==
            first_of(found, FirstTrue([k \in 1..Len(found) |->
                                          found[k].v[1] # None] \o <<>>))
    IN  /\ pc = "extract_account_number"
        /\ \E p \in 1..Len(account_patterns) :
               SearchGroups(account_patterns[p][1], account_patterns[p][2],
                            account_patterns[p][3], JoinWith(<<"\n">>, lines),
                            TRUE) # None
        /\ account_number' =
               first_found([k \in 1..Len(lines) |->
                               extract_account_number(lines[k])] \o <<>>)
        /\ pc' = "account_pattern"
        /\ UNCHANGED <<lines, pos, name_line, customer_name, stage0Vars,
                       reportVars, extractorVars, addressVars, analyzeVars, detectorVars>>

\* "for pattern in account_patterns: ... if match:
\*      return match.group(1), match.group(0)"
AccountPattern ==
    /\ pc = "extract_account_number"
    /\ \E p \in 1..Len(account_patterns) :
           SearchGroups(account_patterns[p][1], account_patterns[p][2],
                        account_patterns[p][3], JoinWith(<<"\n">>, lines),
                        TRUE) # None
    /\ account_number' = extract_account_number(JoinWith(<<"\n">>, lines))
    /\ pc' = "account_pattern"
    /\ UNCHANGED <<lines, pos, name_line, customer_name, stage0Vars,
                   reportVars, extractorVars, addressVars, analyzeVars, detectorVars>>

\* no account pattern matches, a line has a bare number:
\* "return match.group(1), line"
AccountLine ==
    /\ pc = "extract_account_number"
    /\ \A p \in 1..Len(account_patterns) :
           SearchGroups(account_patterns[p][1], account_patterns[p][2],
                        account_patterns[p][3], JoinWith(<<"\n">>, lines),
                        TRUE) = None
    /\ extract_account_number(JoinWith(<<"\n">>, lines)) # PyTuple(<<None, None>>)
    /\ account_number' = extract_account_number(JoinWith(<<"\n">>, lines))
    /\ pc' = "account_line"
    /\ UNCHANGED <<lines, pos, name_line, customer_name, stage0Vars,
                   reportVars, extractorVars, addressVars, analyzeVars, detectorVars>>

\* "return None, None"
NoAccount ==
    /\ pc = "extract_account_number"
    /\ extract_account_number(JoinWith(<<"\n">>, lines)) = PyTuple(<<None, None>>)
    /\ account_number' = PyTuple(<<None, None>>)
    /\ pc' = "no_account"
    /\ UNCHANGED <<lines, pos, name_line, customer_name, stage0Vars,
                   reportVars, extractorVars, addressVars, analyzeVars, detectorVars>>

SpecAccount ==
    InitAccount
    /\ [][\/ AccountPattern
          \/ AccountLine
          \/ NoAccount]_vars

\* C16: when extract_account_number has returned: if an account pattern
\* with a label matches the text, the pair returned is the number and the
\* text of a match of such a pattern, whatever bare numbers earlier lines
\* hold; otherwise the pair is (None, None) or a bare run of ten or more
\* digits with its line, a line that contains none of balance, credit,
\* debit, amount and date; and it is (None, None) when no pattern with a
\* label matches and no such line holds a bare run.
C16_LabelledBeforeFallback ==
    LET bare_number ==
    [k |-> "cat", xs |-> <<[k |-> "wb"], [k |-> "rep", x |-> [k |-> "set", cs |-> DIGIT, neg |-> FALSE], lo |-> 10, hi |-> 10, open |-> TRUE, lazy |-> FALSE], [k |-> "wb"]>>]
        transaction_words == { <<"b","a","l","a","n","c","e">>, <<"c","r","e","d","i","t">>, <<"d","e","b","i","t">>, <<"a","m","o","u","n","t">>, <<"d","a","t","e">> }
        hit(p, text) ==
            SearchGroups(account_patterns[p][1], account_patterns[p][2],
                         account_patterns[p][3], text, TRUE)
        from_pattern(m) ==
            /\ m # None
            /\ account_number = PyTuple(<<PyStr(m.group1), PyStr(m.group0)>>)
        plain(line) ==
            \A w \in transaction_words : ~Contains(lower(line), w)
        \* number is a bare run of digits of the line
        bare_run_of(number, line) ==
            /\ Len(number) >= 10
            /\ \A c \in 1..Len(number) : number[c] \in DIGIT
            /\ \E at \in 1..Len(line) :
                   /\ SubSeq(line, at, at + Len(number) - 1) = number
                   /\ First(bare_number, line, at, FALSE) = at + Len(number)
        from_line(k) ==
            /\ plain(lines[k])
            /\ account_number.v[1] # None
            /\ account_number.v[2] = PyStr(lines[k])
            /\ bare_run_of(account_number.v[1].v, lines[k])
        settled(text, labelled) ==
            /\ labelled => \E p \in 1..Len(account_patterns) : from_pattern(hit(p, text))
            /\ ~labelled =>
                   \/ account_number = PyTuple(<<None, None>>)
                   \/ \E k \in 1..Len(lines) : from_line(k)
            /\ (~labelled /\ \A k \in 1..Len(lines) :
                                 ~(plain(lines[k]) /\ Found(bare_number, lines[k], FALSE)))
               => account_number = PyTuple(<<None, None>>)
        labelled_in(text) ==
            settled(text, \E p \in 1..Len(account_patterns) : hit(p, text) # None)
    IN  pc \in {"account_pattern", "account_line", "no_account"}
        => labelled_in(JoinWith(<<"\n">>, lines))

\* a number with a label in the second line, a bare number in the first
C16_Witness ==
    /\ pc = "account_pattern"
    /\ lines = << <<"9","8","7","6","5","4","3","2","1","0">>, <<"A","/","C"," ","N","O"," ","1","2","3","4","5","6","7","8","9","0","1">> >>
    /\ account_number = PyTuple(<<PyStr(<<"1","2","3","4","5","6","7","8","9","0","1">>), PyStr(<<"A","/","C"," ","N","O"," ","1","2","3","4","5","6","7","8","9","0","1">>)>>)

\* C17: every record of a document whose try block ran to its end, with a
\* header that is not empty, reports as account number the digits found in
\* the first cleaned line in which extract_account_number finds a number,
\* and that line as account line; both are None when no cleaned line holds
\* an account number.
C17_FirstLineWithAccount ==
    LET number_in(line) == extract_account_number(line).v[1]
        expected(record, cleaned, first) ==
            IF first = 0
            THEN record.Account_Number = None /\ record.Account_Line = None
            ELSE /\ record.Account_Number = number_in(cleaned[first])
                 /\ record.Account_Line = clean_text_for_excel(PyStr(cleaned[first]))
        scanned(record, cleaned) ==
            expected(record, cleaned,
                     FirstTrue([k \in 1..Len(cleaned) |->
                                   number_in(cleaned[k]) # None] \o <<>>))
        checked(record, raw_content) ==
            Truthy(raw_content) =>
                scanned(record, CleanedLines(SplitOn(raw_content.v, "\n")))
    IN  \A r \in 1..Len(extraction_results) :
            disk[pdf_files[r]].fault # "console" =>
                checked(extraction_results[r],
                        extract_header_content(disk[pdf_files[r]]))

\* C19: the record of a document is the record that its content alone
\* determines, whatever documents were processed before it (failed ones
\* included): account number, customer name, the two source lines and the
\* status are those of the pipeline applied to the document, and those of
\* the initial dictionary with status 'Failed' when the try block raised.
\* The record looked at is the one appended last, in every state.
C19_RecordDependsOnDocument ==
    LET same(record, alone) ==
            /\ record.Account_Number = alone.Account_Number
            /\ record.Customer_Name = alone.Customer_Name
            /\ record.Account_Line = alone.Account_Line
            /\ record.Name_Line = alone.Name_Line
            /\ record.Extraction_Status = alone.Extraction_Status
        determined(record, pdf_file, pdf) ==
            IF pdf.fault = "console"
            THEN same(record, [Account_Number |-> None, Customer_Name |-> None,
                               Account_Line |-> None, Name_Line |-> None,
                               Extraction_Status |-> "Failed"])
            ELSE \E raw_content \in {extract_header_content(pdf)} :
                 \E alone \in {Extracted(pdf_file, raw_content,
                                         filter_header_data(raw_content))} :
                     same(record, alone)
        last(r) ==
            r > 0 => determined(extraction_results[r], pdf_files[r], disk[pdf_files[r]])
    IN  last(Len(extraction_results))

\* a document whose try block raised, processed after a document with a name
C19_Witness ==
    /\ Len(extraction_results) = 2
    /\ disk[pdf_files[1]] = Readable(<<"M","R"," ","R","A","J","E","S","H"," ","S","H","A","H","\n","D","a","t","e"," ","N","a","r","r","a","t","i","o","n">>)
    /\ disk[pdf_files[2]].fault = "console"
    /\ extraction_results[1].Customer_Name # None
    /\ extraction_results[2].Customer_Name = None
    /\ extraction_results[2].Extraction_Status = "Failed"

\* C20: the line at which detect_header_section starts the table, when it is
\* not a transaction line, is one that is_table_header accepts, and so it
\* contains every term of one known column combination or at least three
\* distinct terms of the column vocabulary.
C20_TableHeaderTerms ==
    LET header_combinations ==
            { {<<"d","a","t","e">>, <<"p","a","r","t","i","c","u","l","a","r","s">>}, {<<"d","a","t","e">>, <<"d","e","s","c","r","i","p","t","i","o","n">>},
              {<<"d","a","t","e">>, <<"n","a","r","r","a","t","i","o","n">>}, {<<"d","a","t","e">>, <<"t","r","a","n","s","a","c","t","i","o","n">>},
              {<<"t","x","n">>, <<"d","a","t","e">>}, {<<"v","a","l","u","e">>, <<"d","a","t","e">>},
              {<<"t","r","a","n","s","a","c","t","i","o","n">>, <<"d","e","t","a","i","l","s">>} }
        column_terms ==
            { <<"d","a","t","e">>, <<"p","a","r","t","i","c","u","l","a","r","s">>, <<"d","e","s","c","r","i","p","t","i","o","n">>, <<"d","e","b","i","t">>, <<"c","r","e","d","i","t">>,
              <<"w","i","t","h","d","r","a","w","a","l">>, <<"d","e","p","o","s","i","t">>, <<"b","a","l","a","n","c","e">>, <<"a","m","o","u","n","t">>, <<"c","h","q">>, <<"r","e","f">>,
              <<"n","a","r","r","a","t","i","o","n">>, <<"t","r","a","n","s","a","c","t","i","o","n">>, <<"d","e","t","a","i","l","s">> }
        distinct_terms(columns) ==
            {columns[c] : c \in 1..Len(columns)} \cap column_terms
        header(line) ==
            \/ \E combo \in header_combinations :
                   \A term \in combo : Contains(line, term)
            \/ Cardinality(distinct_terms(split(line))) >= 3
    IN  table_lines # <<>> /\ ~is_transaction_line(table_lines[1])
        => header(lower(table_lines[1]))

\* C21: in detect_header_section a line ends the header as a transaction row
\* exactly when it starts with a date token and also contains a
\* currency-amount token after that date: no line left in the header from
\* the second line on is such a row, and the line at which the table starts,
\* when it is not a table header, is one.  A line that starts with a date,
\* whatever its separator, and has no amount after it stays in the header.
C21_DateAndAmount ==
    LET date_token ==
    [k |-> "cat", xs |-> <<[k |-> "bol"], [k |-> "rep", x |-> [k |-> "set", cs |-> SPACE, neg |-> FALSE], lo |-> 0, hi |-> 0, open |-> TRUE, lazy |-> FALSE], [k |-> "rep", x |-> [k |-> "set", cs |-> DIGIT, neg |-> FALSE], lo |-> 1, hi |-> 2, open |-> FALSE, lazy |-> FALSE], [k |-> "set", cs |-> {"-", "/", "."}, neg |-> FALSE], [k |-> "rep", x |-> [k |-> "set", cs |-> DIGIT, neg |-> FALSE], lo |-> 1, hi |-> 2, open |-> FALSE, lazy |-> FALSE], [k |-> "set", cs |-> {"-", "/", "."}, neg |-> FALSE], [k |-> "rep", x |-> [k |-> "set", cs |-> DIGIT, neg |-> FALSE], lo |-> 2, hi |-> 4, open |-> FALSE, lazy |-> FALSE]>>]
        amount_tokens ==
        <<
    [k |-> "cat", xs |-> <<[k |-> "rep", x |-> [k |-> "set", cs |-> DIGIT, neg |-> FALSE], lo |-> 1, hi |-> 1, open |-> TRUE, lazy |-> FALSE], [k |-> "lit", s |-> <<",">>], [k |-> "rep", x |-> [k |-> "set", cs |-> DIGIT, neg |-> FALSE], lo |-> 3, hi |-> 3, open |-> FALSE, lazy |-> FALSE], [k |-> "lit", s |-> <<".">>], [k |-> "rep", x |-> [k |-> "set", cs |-> DIGIT, neg |-> FALSE], lo |-> 2, hi |-> 2, open |-> FALSE, lazy |-> FALSE]>>]
        ,
    [k |-> "cat", xs |-> <<[k |-> "rep", x |-> [k |-> "set", cs |-> DIGIT, neg |-> FALSE], lo |-> 1, hi |-> 1, open |-> TRUE, lazy |-> FALSE], [k |-> "lit", s |-> <<".">>], [k |-> "rep", x |-> [k |-> "set", cs |-> DIGIT, neg |-> FALSE], lo |-> 2, hi |-> 2, open |-> FALSE, lazy |-> FALSE], [k |-> "rep", x |-> [k |-> "set", cs |-> SPACE, neg |-> FALSE], lo |-> 0, hi |-> 0, open |-> TRUE, lazy |-> FALSE], [k |-> "rep", x |-> [k |-> "alt", xs |-> <<[k |-> "lit", s |-> <<"c","r">>], [k |-> "lit", s |-> <<"d","r">>]>>], lo |-> 0, hi |-> 1, open |-> FALSE, lazy |-> FALSE]>>]
        >>
        after_date(line) == SubSeq(line, First(date_token, line, 1, FALSE), Len(line))
        transaction_row(line) ==
            /\ First(date_token, line, 1, FALSE) # 0
            /\ \E a \in 1..Len(amount_tokens) :
                   Found(amount_tokens[a], after_date(line), TRUE)
        scanned == pos - 1 - Len(table_lines)
    IN  pc = "section_loop" =>
            /\ \A k \in 2..scanned : ~is_table_header(lines[k])
                                     => ~transaction_row(lower(lines[k]))
            /\ table_lines # <<>> /\ ~is_table_header(table_lines[1])
               => transaction_row(lower(table_lines[1]))

(***************************************************************************)
(* pdf_header_analyzer.py: PDFHeaderAnalyzer.extract_name_from_pattern on  *)
(* one line, a title or a label followed by words.                         *)
(***************************************************************************)
MaxPatternWords == 3

InitNamePattern ==
    /\ \E title \in { <<"M","R">>, <<"C","u","s","t","o","m","e","r"," ","N","a","m","e",":">> } :
       \E words \in SeqsUpTo({ <<"R","A","J">>, <<"S","H","A","H">>, <<"R","a","j">>, <<"s","h","a","h">>, <<"B","1","2">>, <<"K">> },
                             MaxPatternWords) :
           lines = << JoinWith(<<" ">>, <<title>> \o words) >>
    /\ pc = "extract_name_from_pattern"
    /\ pos = 1
    /\ Idle("extract_name_from_pattern")

\* "if len(caps_words) >= 2: ... return name, entity_type" with one of the
\* patterns
PatternName ==
    /\ pc = "extract_name_from_pattern"
    /\ \E named \in {extract_name_from_pattern(lines[1])} :
           /\ named[1] # <<>>
           /\ oneshot_name' = named[1]
           /\ oneshot_type' = named[2]
    /\ pc' = "pattern_name"
    /\ UNCHANGED <<lines, pos, stage0Vars, reportVars, nameVars, extractorVars,
                   addressVars, analysis, stage1_lines, number_cleaned_lines,
                   final_cleaned_lines, results,
                   detectorVars>>

\* no pattern has two words in capitals after it: "return '', ''"
PatternNoName ==
    /\ pc = "extract_name_from_pattern"
    /\ extract_name_from_pattern(lines[1])[1] = <<>>
    /\ oneshot_name' = <<>>
    /\ oneshot_type' = <<>>
    /\ pc' = "pattern_no_name"
    /\ UNCHANGED <<lines, pos, stage0Vars, reportVars, nameVars, extractorVars,
                   addressVars, analysis, stage1_lines, number_cleaned_lines,
                   final_cleaned_lines, results,
                   detectorVars>>

SpecNamePattern ==
    InitNamePattern
    /\ [][\/ PatternName
          \/ PatternNoName]_vars

\* C22: when extract_name_from_pattern has returned for a line that starts
\* with a title or a label: the run is the longest prefix of the words after
\* it in which each word is made of capital letters alone or, after the
\* label "customer name", is a capital letter followed by letters; the name
\* returned is the title and the run when the run has two words or more,
\* and is empty otherwise.
C22_CapitalizedRun ==
    LET words == split(lines[1])
        labelled == lower(words[1]) = <<"c","u","s","t","o","m","e","r">>
        title == IF labelled THEN SubSeq(words, 1, 2) ELSE SubSeq(words, 1, 1)
        following == SubSeq(words, Len(title) + 1, Len(words))
        upper_case(word) == \A c \in 1..Len(word) : word[c] \in UPPER
        title_case(word) ==
            /\ word[1] \in UPPER
            /\ \A c \in 2..Len(word) : word[c] \in UPPER \cup LOWER
        in_run(word) == upper_case(word) \/ (labelled /\ title_case(word))
        stop == FirstTrue([w \in 1..Len(following) |-> ~in_run(following[w])] \o <<>>)
        run == IF stop = 0 THEN following ELSE SubSeq(following, 1, stop - 1)
    IN  pc \in {"pattern_name", "pattern_no_name"} =>
            oneshot_name = IF Len(run) >= 2 THEN JoinWith(<<" ">>, title \o run)
                           ELSE <<>>

\* C23: in analyze_pdf, when one-shot detection has run after stage 1: if a
\* header line is the label "CUSTOMER NAME:" or "NAME OF CUSTOMER:" followed
\* by two or more words in capital letters, one-shot detection has found a
\* name.
C23_LabelSurvivesStage1 ==
    LET labels == { <<<<"C","U","S","T","O","M","E","R">>, <<"N","A","M","E",":">>>>, <<<<"N","A","M","E">>, <<"O","F">>, <<"C","U","S","T","O","M","E","R",":">>>> }
        upper_case(word) == \A c \in 1..Len(word) : word[c] \in UPPER
        labelled(words) ==
            \E label \in labels :
                /\ Len(words) >= Len(label) + 2
                /\ SubSeq(words, 1, Len(label)) = label
                /\ \A w \in (Len(label) + 1)..Len(words) : upper_case(words[w])
    IN  pc = "analyze_stage2" =>
            \A k \in 1..Len(header_lines) :
                labelled(split(header_lines[k])) => oneshot_name # <<>>

(***************************************************************************)
(* header_detector.py: analyze_header_for_name, one action per way through *)
(* the body of its loop over the first ten header lines.  pos is the index *)
(* (from 1) of the line the loop is at.                                    *)
(***************************************************************************)
\* score_potential_name(line): the pair (score, cleaned_line)
score_potential_name(original_line) ==
    LET banking_terms ==
            { <<"B","A","N","K">>, <<"S","T","A","T","E","M","E","N","T">>, <<"A","C","C","O","U","N","T">>, <<"B","R","A","N","C","H">>, <<"I","F","S","C">>, <<"C","O","D","E">>,
              <<"P","E","R","I","O","D">> }
        company_indicators ==
            { <<"L","I","M","I","T","E","D">>, <<"L","T","D">>, <<"P","V","T">>, <<"P","R","I","V","A","T","E">>, <<"C","O","R","P","O","R","A","T","I","O","N">>, <<"C","O","R","P">>,
              <<"L","L","C">>, <<"L","L","P">> }
        address_indicators ==
            { <<"R","O","A","D">>, <<"S","T","R","E","E","T">>, <<"L","A","N","E">>, <<"A","V","E","N","U","E">>, <<"B","U","I","L","D","I","N","G">>, <<"F","L","O","O","R">>,
              <<"C","O","M","P","L","E","X">>, <<"P","L","A","Z","A">>, <<"T","O","W","E","R">> }
        name_prefixes == { <<"N","A","M","E",":">>, <<"M","/","S",":">>, <<"M","E","S","S","R","S",":">> }
        line == strip(original_line)
        isupper(word) ==
            /\ \E c \in 1..Len(word) : word[c] \in UPPER
            /\ \A c \in 1..Len(word) : word[c] \notin LOWER
        uppercase_words ==
            SelectSeq(split(line),
                      LAMBDA w : isupper(w) /\ w \notin banking_terms)
        has(indicators) ==
            \E w \in 1..Len(uppercase_words) : uppercase_words[w] \in indicators
        cleaned_line == JoinWith(<<" ">>, uppercase_words)
        score ==
            Len(uppercase_words) * 10
            + (IF has(company_indicators) THEN 20 ELSE 0)
            - (IF has(address_indicators) THEN 30 ELSE 0)
            + (IF /\ InSeq(":", original_line)
                  /\ \E name_prefix \in name_prefixes :
                         Contains(upper(original_line), name_prefix)
               THEN 15 ELSE 0)
            - (IF Len(cleaned_line) > 50 THEN 20 ELSE 0)
    IN  IF line = <<>> \/ Len(line) < 5 THEN <<0, <<>> >>
        ELSE IF \E c \in 1..Len(line) : line[c] \in DIGIT THEN <<0, <<>> >>
        ELSE IF is_table_header(line) \/ is_transaction_line(line) THEN <<0, <<>> >>
        ELSE IF Len(uppercase_words) < 2 THEN <<0, <<>> >>
        ELSE <<score, cleaned_line>>

MaxScoredLines == 11

\* header_lines: at most two lines that may hold a name, among lines too short
\* to hold one
InitHeaderName ==
    LET names == { <<"A","B"," ","C","D">>, <<"X","Y"," ","Z","W"," ","E","F">>, <<"A","B","C"," ","L","I","M","I","T","E","D">>, <<"A","B"," ","R","O","A","D">>,
                   <<"N","A","M","E",":"," ","X","Y"," ","Z","W">>, <<"H","D","F","C"," ","B","A","N","K">>, <<"M","r"," ","R","a","j">> }
        short(n) == [k \in 1..n |-> <<"x">>] \o <<>>
    IN  /\ \E before \in 0..1, between \in 0..(MaxScoredLines - 2) :
           \E first \in SeqsUpTo(names, 1), second \in SeqsUpTo(names, 1) :
               /\ before + between + 2 <= MaxScoredLines
               /\ lines = short(before) \o first \o short(between) \o second
        /\ pc = "analyze_header_for_name"
        /\ pos = 1
        /\ Idle("analyze_header_for_name")

\* a mutation of ScoreCandidate: a line is a candidate when its score with
\* the position bonus is positive
ScoreCandidateWithBonus ==
    /\ pc = "analyze_header_for_name"
    /\ pos <= Len(lines) /\ pos <= 10
    /\ \E scored \in {score_potential_name(lines[pos])} :
           /\ scored[1] + (10 - (pos - 1)) * 2 > 0
           /\ candidates' = Append(candidates,
                                   <<scored[1] + (10 - (pos - 1)) * 2, scored[2]>>)
    /\ pos' = pos + 1
    /\ UNCHANGED <<pc, lines, best_name, stdin, stage0Vars, reportVars, nameVars,
                   extractorVars, addressVars, analyzeVars>>

\* "if score > 0: position_bonus = max(0, (10 - i) * 2);
\*  candidates.append((score + position_bonus, cleaned_line))" (i counts from 0)
ScoreCandidate ==
    /\ pc = "analyze_header_for_name"
    /\ pos <= Len(lines) /\ pos <= 10
    /\ \E scored \in {score_potential_name(lines[pos])} :
           /\ scored[1] > 0
           /\ candidates' = Append(candidates,
                                   <<scored[1] + (10 - (pos - 1)) * 2, scored[2]>>)
    /\ pos' = pos + 1
    /\ UNCHANGED <<pc, lines, best_name, stdin, stage0Vars, reportVars, nameVars,
                   extractorVars, addressVars, analyzeVars>>

\* the score is not positive: the line is no candidate
ScoreSkip ==
    /\ pc = "analyze_header_for_name"
    /\ pos <= Len(lines) /\ pos <= 10
    /\ score_potential_name(lines[pos])[1] <= 0
    /\ pos' = pos + 1
    /\ UNCHANGED <<pc, lines, stage0Vars, reportVars, nameVars, extractorVars,
                   addressVars, analyzeVars, detectorVars>>

\* "if not candidates: return ''"
NoCandidates ==
    /\ pc = "analyze_header_for_name"
    /\ pos > Len(lines) \/ pos > 10
    /\ candidates = <<>>
    /\ best_name' = <<>>
    /\ pc' = "no_candidates"
    /\ UNCHANGED <<lines, pos, candidates, stdin, stage0Vars, reportVars, nameVars,
                   extractorVars, addressVars, analyzeVars>>

\* "candidates.sort(reverse=True); return candidates[0][1]": the tuples are
\* compared by score and then by cleaned_line, a string compared character by
\* character (ascii: the printable characters in the order of their codes,
\* the grave accent left out)
BestCandidate ==
    LET ascii ==
            <<" ","!">> \o <<"\"">>
            \o <<"#","$","%","&","'","(",")","*","+",",","-",".","/","0","1","2","3","4","5","6","7","8","9",":",";","<","=",">","?","@","A","B","C","D","E","F","G","H","I","J","K","L","M","N","O","P","Q","R","S","T","U","V","W","X","Y","Z","[">>
            \o <<"\\">> \o <<"]","^","_","a","b","c","d","e","f","g","h","i","j","k","l","m","n","o","p","q","r","s","t","u","v","w","x","y","z","{","|","}","~">>
        code(c) == CHOOSE n \in 1..Len(ascii) : ascii[n] = c
        RECURSIVE less(_, _)
        less(a, b) ==
            IF b = <<>> THEN FALSE
            ELSE IF a = <<>> THEN TRUE
            ELSE IF a[1] # b[1] THEN code(a[1]) < code(b[1])
            ELSE less(Tail(a), Tail(b))
        before_(x, y) == x[1] < y[1] \/ (x[1] = y[1] /\ less(x[2], y[2]))
        largest == CHOOSE k \in 1..Len(candidates) :
                       \A j \in 1..Len(candidates) :
                           ~before_(candidates[k], candidates[j])
    IN  /\ pc = "analyze_header_for_name"
        /\ pos > Len(lines) \/ pos > 10
        /\ candidates # <<>>
        /\ candidates' = candidates
        /\ best_name' = candidates[largest][2]
        /\ pc' = "best_candidate"
        /\ UNCHANGED <<lines, pos, stdin, stage0Vars, reportVars, nameVars,
                       extractorVars, addressVars, analyzeVars>>

SpecHeaderName ==
    InitHeaderName
    /\ [][ScoreCandidate \/ ScoreSkip \/ NoCandidates \/ BestCandidate]_vars

\* C24: analyze_header_for_name looks at the first 10 header lines only; the
\* candidate it keeps for line i (counted from 0) has the total
\* 10 x (number of all-caps words that are no banking terms, two at least)
\* + 20 with a company suffix - 30 with an address term - 20 when the joined
\* all-caps words are longer than 50 characters + 2 x (10 - i), and nothing
\* else; it returns the joined all-caps words of a line with the highest
\* total, and the empty string when no line has a positive score.
C24_ScoreTerms ==
    LET banking == { <<"B","A","N","K">>, <<"S","T","A","T","E","M","E","N","T">>, <<"A","C","C","O","U","N","T">>, <<"B","R","A","N","C","H">>, <<"I","F","S","C">>,
                     <<"C","O","D","E">>, <<"P","E","R","I","O","D">> }
        company == { <<"L","I","M","I","T","E","D">>, <<"L","T","D">>, <<"P","V","T">>, <<"P","R","I","V","A","T","E">>, <<"C","O","R","P","O","R","A","T","I","O","N">>,
                     <<"C","O","R","P">>, <<"L","L","C">>, <<"L","L","P">> }
        address == { <<"R","O","A","D">>, <<"S","T","R","E","E","T">>, <<"L","A","N","E">>, <<"A","V","E","N","U","E">>, <<"B","U","I","L","D","I","N","G">>,
                     <<"F","L","O","O","R">>, <<"C","O","M","P","L","E","X">>, <<"P","L","A","Z","A">>, <<"T","O","W","E","R">> }
        all_caps(word) ==
            /\ \E c \in 1..Len(word) : word[c] \in UPPER
            /\ \A c \in 1..Len(word) : word[c] \notin LOWER
        caps(line) == SelectSeq(split(line),
                                LAMBDA w : all_caps(w) /\ w \notin banking)
        any(words, terms) == \E w \in 1..Len(words) : words[w] \in terms
        base(words) ==
            IF Len(words) < 2 THEN 0
            ELSE 10 * Len(words)
                 + (IF any(words, company) THEN 20 ELSE 0)
                 - (IF any(words, address) THEN 30 ELSE 0)
                 - (IF Len(JoinWith(<<" ">>, words)) > 50 THEN 20 ELSE 0)
        first_ten == SubSeq(lines, 1, IF Len(lines) < 10 THEN Len(lines) ELSE 10)
        RECURSIVE expected(_)
        \* the candidates of the lines up to line number n
        expected(n) ==
            IF n = 0 THEN <<>>
            ELSE IF base(caps(first_ten[n])) > 0
            THEN Append(expected(n - 1),
                        << base(caps(first_ten[n])) + 2 * (10 - (n - 1)),
                           JoinWith(<<" ">>, caps(first_ten[n])) >>)
            ELSE expected(n - 1)
        all == expected(Len(first_ten))
    IN  /\ pc = "analyze_header_for_name" /\ pos <= Len(first_ten) + 1
           => candidates = expected(pos - 1)
        /\ pc = "no_candidates" => all = <<>> /\ best_name = <<>>
        /\ pc = "best_candidate" =>
               \E k \in 1..Len(all) :
                   /\ best_name = all[k][2]
                   /\ \A j \in 1..Len(all) : all[j][1] <= all[k][1]

\* C25: when analyze_header_for_name returns a candidate and several
\* candidates have the highest total, the name returned is that of the
\* earliest of them in the header.
C25_EarlierLineWinsTie ==
    LET highest == CHOOSE t \in {candidates[k][1] : k \in 1..Len(candidates)} :
                       \A k \in 1..Len(candidates) : candidates[k][1] <= t
        earliest == SetMin({k \in 1..Len(candidates) : candidates[k][1] = highest})
    IN  pc = "best_candidate" => best_name = candidates[earliest][2]

\* C26: every candidate of analyze_header_for_name comes from a line among
\* the first 10 whose score from score_potential_name is positive, whatever
\* its position bonus; the name returned is the cleaned line of such a
\* line, and is empty when there is no such line.
C26_PositiveBaseScore ==
    LET last == IF Len(lines) < 10 THEN Len(lines) ELSE 10
        positive == {i \in 1..last : score_potential_name(lines[i])[1] > 0}
    IN  /\ pc = "analyze_header_for_name" /\ pos <= last + 1
           => Len(candidates) = Cardinality({i \in positive : i < pos})
        /\ pc \in {"best_candidate", "no_candidates"} =>
               IF positive = {} THEN pc = "no_candidates" /\ best_name = <<>>
               ELSE /\ pc = "best_candidate"
                    /\ \E i \in positive :
                           best_name = score_potential_name(lines[i])[2]

\* the first line has a negative score and a position bonus that outweighs
\* it, and the name of the second line is returned
C26_Witness ==
    /\ pc = "best_candidate"
    /\ lines = << <<"A","B"," ","R","O","A","D">>, <<"A","B"," ","C","D">> >>
    /\ score_potential_name(lines[1])[1] = -10
    /\ best_name = <<"A","B"," ","C","D">>

(***************************************************************************)
(* header_detector.py, class PDFHeaderAnalyzer (the variant that stops     *)
(* between the stages): analyze_pdf_directory, one action per stretch of   *)
(* code between two calls of input().  Standard input is a terminal:       *)
(* input() returns when an Enter key has been typed, and waits until then. *)
(* stdin counts the keys typed and not read yet.  The methods the stages   *)
(* call are those of pdf_header_analyzer.py, line for line.                *)
(***************************************************************************)
MaxStagedPdfs == 2

MaxTyped == 2

InitStaged ==
    LET FileNames == <<"a.pdf", "b.pdf", "c.pdf">>
        Pdfs ==
            { Readable(<<>>),
              [text |-> None, fault |-> "reader",
               message |-> <<"E","O","F"," ","m","a","r","k","e","r"," ","n","o","t"," ","f","o","u","n","d">>],
              Readable(<<"A","c","c","o","u","n","t"," ","S","t","a","t","e","m","e","n","t","\n"," ","M","R"," ","R","A","J","E","S","H"," ","S","H","A","H"," ","\n","D","a","t","e"," ","P","a","r","t","i","c","u","l","a","r","s">>),
              Readable(<<"H","D","F","C"," ","B","a","n","k","\n","F","L","A","T"," ","N","O"," ","1","2","\n","M","U","M","B","A","I"," ","4","0","0","0","0","1","\n","R","A","J"," ","&"," ","S","o","n","s","-","2">>),
              Readable(<<"C","U","S","T","O","M","E","R"," ","N","A","M","E",":"," ","R","A","J"," ","S","H","A","H">>) }
    IN  /\ \E n \in 0..MaxStagedPdfs :
              /\ pdf_files = SubSeq(FileNames, 1, n)
              /\ disk \in [{FileNames[k] : k \in 1..n} -> Pdfs]
        /\ pc = "staged_directory"
        /\ pos = 1
        /\ lines = <<>>
        /\ extraction_results = <<>>
        /\ total_files = 0
        /\ successful_extractions = 0
        /\ partial_extractions = 0
        /\ failed_extractions = 0
        /\ summary = None
        /\ Idle("analyze_pdf_directory")

\* the user types an Enter key, read by a later input()
UserPressesEnter ==
    /\ stdin < MaxTyped
    /\ stdin' = stdin + 1
    /\ UNCHANGED <<pc, lines, pos, candidates, best_name, stage0Vars, reportVars,
                   nameVars, extractorVars, addressVars, analyzeVars>>

\* "if not pdfs: ... return"
StagedNoPdfs ==
    /\ pc = "staged_directory"
    /\ pdf_files = <<>>
    /\ pc' = "staged_returned"
    /\ UNCHANGED <<lines, pos, stage0Vars, reportVars, nameVars, extractorVars,
                   addressVars, analyzeVars, detectorVars>>

\* analyze_pdf up to its first input(): no text, or stages 0 and 1 and the
\* one-shot detection, which returns when it finds a name.  When analyze_pdf
\* has returned the loop of analyze_pdf_directory goes on:
\* "if i < len(pdfs): input(...)"
StagedAnalyzePdf ==
    LET guaranteed_remove_words ==
        { <<"S","T","A","T","E","M","E","N","T">>, <<"A","C","C","O","U","N","T">>, <<"C","U","R","R","E","N","C","Y">>, <<"I","N","R">>, <<"T","Y","P","E">>, <<"S","A","V","I","N","G","S">>,
          <<"N","O","M","I","N","E","E">>, <<"R","E","G","I","S","T","E","R","E","D">>, <<"I","F","S","C">>, <<"M","I","C","R">>, <<"C","O","D","E">>, <<"G","S","T","I","N">>, <<"N","A">>,
          <<"S","A","C">>, <<"S","U","M","M","A","R","Y">>, <<"U","N","Q">>, <<"S","R","L">>, <<"N","O">>, <<"I","D">>, <<"C","U","S","T","O","M","E","R">>,
          <<"B","R","A","N","C","H">>, <<"N","U","M","B","E","R">>, <<"A","/","C">>, <<"B","A","L","A","N","C","E">>, <<"C","L","O","S","I","N","G">>, <<"O","F">>, <<"T","O">>,
          <<"D","A","T","E">> }
        text == extract_text_from_pdf(disk[pdf_files[pos]])
        returned == IF pos < Len(pdf_files) THEN "input_next_pdf"
                    ELSE "staged_returned"
        is_marker(line) == is_table_header(line) \/ is_transaction_line(line)
        before(stripped, marker) ==
            IF marker = 0 THEN stripped ELSE SubSeq(stripped, 1, marker - 1)
        \* word.strip(".:/-")
        clean_word(word) ==
            LET keep == {c \in 1..Len(word) : word[c] \notin {".", ":", "/", "-"}}
            IN  IF keep = {} THEN <<>>
                ELSE SubSeq(word, SetMin(keep),
                            CHOOSE x \in keep : \A y \in keep : x >= y)
        removed(word) == upper(clean_word(word)) \in guaranteed_remove_words
        cleaned_words(line) == SelectSeq(split(line), LAMBDA word : ~removed(word))
        last_call(names, first) ==
            IF first # 0 THEN names[first]
            ELSE IF names = <<>> THEN <<oneshot_name, oneshot_type>>
            ELSE << <<>>, <<>> >>
    IN  /\ pc = "staged_directory"
        /\ pos <= Len(pdf_files)
        /\ IF text = <<>>
           THEN /\ pc' = returned
                /\ UNCHANGED <<lines, header_lines, stage1_lines, oneshot_name,
                               oneshot_type>>
           ELSE \E stripped \in {[k \in 1..Len(SplitOn(text, "\n")) |->
                                     strip(SplitOn(text, "\n")[k])] \o <<>>} :
                \E marker \in {FirstTrue([k \in 1..Len(stripped) |->
                                  stripped[k] # <<>> /\ is_marker(stripped[k])] \o <<>>)} :
                \E hl \in {SelectSeq(before(stripped, marker), LAMBDA l : l # <<>>)} :
                \E raw \in {SelectSeq([k \in 1..Len(hl) |->
                                          JoinWith(<<" ">>, cleaned_words(hl[k]))] \o <<>>,
                                      LAMBDA l : l # <<>>)} :
                \E names \in {[k \in 1..Len(raw) |->
                                 extract_name_from_pattern(raw[k])] \o <<>>} :
                \E first \in {FirstTrue([k \in 1..Len(names) |->
                                            names[k][1] # <<>>] \o <<>>)} :
                    /\ lines' = SplitOn(text, "\n")
                    /\ header_lines' = hl
                    /\ stage1_lines' = raw
                    /\ oneshot_name' = last_call(names, first)[1]
                    /\ oneshot_type' = last_call(names, first)[2]
                    /\ pc' = IF first # 0 THEN returned ELSE "input_fallback"
        /\ UNCHANGED <<pos, table_lines, table_started, reportVars, nameVars,
                       extractorVars, addressVars, analysis, number_cleaned_lines,
                       final_cleaned_lines, results, detectorVars>>

\* input("Press Enter to start fallback analysis...") returns; stage 2 finds
\* the address block in the lines before a table marker and removes it
StagedStage2 ==
    LET is_marker(line) == is_table_header(line) \/ is_transaction_line(line)
        before(marker) ==
            IF marker = 0 THEN stage1_lines ELSE SubSeq(stage1_lines, 1, marker - 1)
        \* find_address_block: the state of its loop after the lines from n
        RECURSIVE find_address_block(_, _, _, _, _, _)
        find_address_block(hl, n, start, end, in_block, consecutive) ==
            IF n > Len(hl) THEN <<start, end>>
            ELSE IF AddressLike(hl[n])
            THEN find_address_block(hl, n + 1, IF in_block THEN start ELSE n - 1,
                                    n - 1, TRUE, consecutive + 1)
            ELSE IF in_block /\ consecutive >= 2 THEN <<start, end>>
            ELSE IF in_block THEN find_address_block(hl, n + 1, -1, -1, FALSE, 0)
            ELSE find_address_block(hl, n + 1, start, end, in_block, 0)
    IN  /\ pc = "input_fallback"
        /\ stdin > 0
        /\ stdin' = stdin - 1
        /\ \E hl \in {before(FirstTrue([k \in 1..Len(stage1_lines) |->
                                           is_marker(stage1_lines[k])] \o <<>>))} :
           \E block \in {find_address_block(hl, 1, -1, -1, FALSE, 0)} :
               /\ header_lines' = hl
               /\ start_idx' = block[1]
               /\ end_idx' = block[2]
               /\ kept_lines' =
                      IF block[1] # -1 /\ block[2] # -1
                      THEN SubSeq(hl, 1, block[1])
                           \o SubSeq(hl, block[2] + 2, Len(hl))
                      ELSE hl
        /\ pc' = "input_stage3"
        /\ UNCHANGED <<lines, pos, table_lines, table_started, reportVars, nameVars,
                       extractorVars, in_address_block, consecutive_address_lines,
                       skip_mode, address_line_count, analyzeVars, candidates,
                       best_name>>

\* input("Press Enter to continue to Stage 3: ...") returns; stage 3 removes
\* numbers and special characters
StagedStage3 ==
    LET numbers ==
    [k |-> "rep", x |-> [k |-> "set", cs |-> DIGIT, neg |-> FALSE], lo |-> 1, hi |-> 1, open |-> TRUE, lazy |-> FALSE]
        special_chars ==
    [k |-> "set", cs |-> WORDCH \cup SPACE, neg |-> TRUE]
        cleaned(line) == Sub(special_chars, <<>>, Sub(numbers, <<>>, line, FALSE), FALSE)
    IN  /\ pc = "input_stage3"
        /\ stdin > 0
        /\ stdin' = stdin - 1
        /\ number_cleaned_lines' =
               SelectSeq([k \in 1..Len(kept_lines) |-> cleaned(kept_lines[k])] \o <<>>,
                         LAMBDA l : strip(l) # <<>>)
        /\ pc' = "input_stage4"
        /\ UNCHANGED <<lines, pos, stage0Vars, reportVars, nameVars, extractorVars,
                       addressVars, analysis, stage1_lines, oneshot_name,
                       oneshot_type, final_cleaned_lines, results, candidates,
                       best_name>>

\* input("Press Enter to continue to Stage 4: ...") returns; stage 4 removes
\* the words that are not in capitals
StagedStage4 ==
    LET isupper(word) ==
            /\ \E c \in 1..Len(word) : word[c] \in UPPER
            /\ \A c \in 1..Len(word) : word[c] \notin LOWER
    IN  /\ pc = "input_stage4"
        /\ stdin > 0
        /\ stdin' = stdin - 1
        /\ final_cleaned_lines' =
               SelectSeq([k \in 1..Len(number_cleaned_lines) |->
                             JoinWith(<<" ">>, SelectSeq(split(number_cleaned_lines[k]),
                                                      isupper))] \o <<>>,
                         LAMBDA l : l # <<>>)
        /\ pc' = "input_final"
        /\ UNCHANGED <<lines, pos, stage0Vars, reportVars, nameVars, extractorVars,
                       addressVars, analysis, stage1_lines, oneshot_name,
                       oneshot_type, number_cleaned_lines, results, candidates,
                       best_name>>

\* input("Press Enter to see Final Cleaned Content...") returns; the final
\* content is printed
StagedFinal ==
    /\ pc = "input_final"
    /\ stdin > 0
    /\ stdin' = stdin - 1
    /\ pc' = "input_names"
    /\ UNCHANGED <<lines, pos, stage0Vars, reportVars, nameVars, extractorVars,
                   addressVars, analyzeVars, candidates, best_name>>

\* input("Press Enter to continue with name extraction...") returns and
\* analyze_pdf with it; the loop of analyze_pdf_directory goes on:
\* "if i < len(pdfs): input(...)"
StagedAnalyzed ==
    /\ pc = "input_names"
    /\ stdin > 0
    /\ stdin' = stdin - 1
    /\ pc' = IF pos < Len(pdf_files) THEN "input_next_pdf" ELSE "staged_returned"
    /\ UNCHANGED <<lines, pos, stage0Vars, reportVars, nameVars, extractorVars,
                   addressVars, analyzeVars, candidates, best_name>>

\* input("Press Enter to analyze next PDF...") returns: the next file
StagedNextPdf ==
    /\ pc = "input_next_pdf"
    /\ stdin > 0
    /\ stdin' = stdin - 1
    /\ pos' = pos + 1
    /\ pc' = "staged_directory"
    /\ UNCHANGED <<lines, stage0Vars, reportVars, nameVars, extractorVars,
                   addressVars, analyzeVars, candidates, best_name>>

SpecStaged ==
    InitStaged
    /\ [][\/ UserPressesEnter
          \/ StagedNoPdfs
          \/ StagedAnalyzePdf
          \/ StagedStage2
          \/ StagedStage3
          \/ StagedStage4
          \/ StagedFinal
          \/ StagedAnalyzed
          \/ StagedNextPdf]_vars

\* C27: analyze_pdf_directory of the variant that stops between the stages
\* runs over all PDFs without waiting for the user: no step of analyze_pdf
\* or of the directory loop is an input() call.
C27_NeverWaitsForUser ==
    pc \notin {"input_fallback", "input_stage3", "input_stage4", "input_final",
               "input_names", "input_next_pdf"}

\* C28: in generate_extraction_report, after each document (processed to
\* the end of the try block or with an exception) the three counters add up
\* to the number of documents processed so far and to the length of
\* extraction_results; each document adds exactly one record, in processing
\* order, and no counter ever decreases.
C28_CountersMatchRecords ==
    [][/\ successful_extractions' + partial_extractions' + failed_extractions'
              = Len(extraction_results')
       /\ Len(extraction_results') = pos' - 1
       /\ \A k \in 1..Len(extraction_results') :
              extraction_results'[k].PDF_File = pdf_files[k]
       /\ \/ extraction_results' = extraction_results
          \/ /\ Len(extraction_results') = Len(extraction_results) + 1
             /\ SubSeq(extraction_results', 1, Len(extraction_results))
                    = extraction_results
       /\ pos' # pos => Len(extraction_results') = Len(extraction_results) + 1
       /\ successful_extractions' >= successful_extractions
       /\ partial_extractions' >= partial_extractions
       /\ failed_extractions' >= failed_extractions]_vars

\* the report is done over two documents, one that raised and one with both
\* findings
C28_Witness ==
    /\ pc = "report_done"
    /\ Len(extraction_results) = 2
    /\ \E k \in 1..2 : disk[pdf_files[k]].fault = "console"
    /\ failed_extractions = 1
    /\ successful_extractions = 1

\* C29: PDFHeaderAnalyzer.remove_address_block removes at most one
\* contiguous block: what it returns is its input without one run of
\* neighbouring address-like lines, the lines before the run and the lines
\* after it unchanged and in order, also when the lines after the run hold
\* another run of 2 or more address-like lines.
C29_OneBlockRemoved ==
    pc = "analyzer_done" =>
        \E a \in 0..Len(lines) : \E b \in a..Len(lines) :
            /\ kept_lines = SubSeq(lines, 1, a) \o SubSeq(lines, b + 1, Len(lines))
            /\ \A k \in (a + 1)..b : AddressLike(lines[k])
            /\ <<start_idx, end_idx>> # <<-1, -1>> => <<start_idx, end_idx>> = <<a, b - 1>>

\* the block of the first two lines is removed; the name and the second run
\* of two address lines after it are returned
C29_Witness ==
    /\ pc = "analyzer_done"
    /\ Len(lines) = 5
    /\ <<start_idx, end_idx>> = <<0, 1>>
    /\ AddressLike(lines[4]) /\ AddressLike(lines[5])
    /\ kept_lines = SubSeq(lines, 3, 5)

\* C30: extract_header_content returns a string for every document: the
\* lines before the first line that a transaction pattern is found in when
\* that line is not the first, all lines when there is no such line, and a
\* message (no text, no header before the table, an error of the reader)
\* in every other case; the record of a processed document holds it.
C30_AlwaysAString ==
    \A k \in 1..Len(pdf_files) :
        LET pdf == disk[pdf_files[k]]
            returned == extract_header_content(pdf)
            parts == IF pdf.text.tag = "str" THEN SplitOn(pdf.text.v, "\n") ELSE <<>>
            text_lines == SelectSeq([n \in 1..Len(parts) |-> strip(parts[n])] \o <<>>,
                                    LAMBDA l : l # <<>>)
            table_start == transaction_table_start(text_lines)
        IN  /\ returned.tag = "str"
            /\ IF pdf.fault = "reader"
               THEN SubSeq(returned.v, 1, 22) = <<"E","r","r","o","r"," ","p","r","o","c","e","s","s","i","n","g"," ","P","D","F",":"," ">>
               ELSE IF ~Truthy(pdf.text) THEN returned.v = <<"N","o"," ","t","e","x","t"," ","f","o","u","n","d"," ","i","n"," ","P","D","F">>
               ELSE IF table_start = 1 THEN returned.v = <<"N","o"," ","h","e","a","d","e","r"," ","c","o","n","t","e","n","t"," ","f","o","u","n","d">>
               ELSE IF table_start = 0
               THEN returned.v = JoinWith(<<"\n">>, text_lines)
               ELSE /\ returned.v = JoinWith(<<"\n">>, SubSeq(text_lines, 1, table_start - 1))
                    /\ SplitOn(returned.v, "\n") = SubSeq(text_lines, 1, table_start - 1)
            /\ k < pos =>
                  extraction_results[k].Raw_Content = clean_text_for_excel(returned)

\* both documents are processed: one with a line before the table and one
\* whose first line is the table header
C30_Witness ==
    /\ pc = "report_done"
    /\ Len(extraction_results) = 2
    /\ disk[pdf_files[1]] = Readable(<<"M","R"," ","R","A","J","E","S","H"," ","S","H","A","H","\n","D","a","t","e"," ","N","a","r","r","a","t","i","o","n">>)
    /\ extraction_results[1].Raw_Content = PyStr(<<"M","R"," ","R","A","J","E","S","H"," ","S","H","A","H">>)
    /\ disk[pdf_files[2]] = Readable(<<"D","a","t","e"," ","N","a","r","r","a","t","i","o","n","\n","M","R"," ","R","A","J","E","S","H"," ","S","H","A","H">>)
    /\ extraction_results[2].Raw_Content = PyStr(<<"N","o"," ","h","e","a","d","e","r"," ","c","o","n","t","e","n","t"," ","f","o","u","n","d">>)

====
